---- MODULE Spec2Model ----
(***************************************************************************)
(* A model of the learner-profile core of the NLP generative-UI pipeline:  *)
(* the LearnerProfile data classes, the ProfileGenerator cache (get, set,  *)
(* merge_profiles, export_profile, get_similar_learners), the inference of *)
(* the VARK and MBTI labels (src/src/models/profile_generator.py) and the  *)
(* recommendation rules of PromptTransformer                               *)
(* (src/src/models/prompt_transformer.py).                                 *)
(*                                                                         *)
(* Python objects live in a heap (a sequence of cells addressed by their   *)
(* index): a LearnerProfile cell refers to its four trait objects and its  *)
(* three list objects by address, and profile_cache maps identifiers to    *)
(* profile addresses, so that aliasing between the cache and its callers   *)
(* is part of the state.                                                   *)
(*                                                                         *)
(* Scores are exact rationals <<numerator, denominator>> in lowest terms.  *)
(* The arithmetic is the real-number meaning of the Python expressions;    *)
(* the rounding of IEEE-754 doubles is not modelled.                       *)
(***************************************************************************)
EXTENDS Integers, Sequences, FiniteSets, TLC

VARIABLES heap, profile_cache, now, last

vars == <<heap, profile_cache, now, last>>

(***************************************************************************)
(* Bounds of the model.                                                    *)
(***************************************************************************)
\* LearnerProfile objects that may be allocated in one behaviour.
MaxProfiles == 3
\* Readings the clock can take after the initial one (datetime.utcnow()).
MaxTime == 1

(***************************************************************************)
(* Exact rational arithmetic (the values of Python floats).                *)
(***************************************************************************)
Abs(n) == IF n < 0 THEN -n ELSE n

RECURSIVE GCD(_, _)
GCD(a, b) == IF b = 0 THEN a ELSE GCD(b, a % b)

\* n/d in lowest terms with a positive denominator (d # 0).
R(n, d) ==
    LET s == IF d < 0 THEN -1 ELSE 1
        g == GCD(Abs(n), Abs(d))
    IN  <<(s * n) \div g, (s * d) \div g>>

RAdd(x, y) == R(x[1] * y[2] + y[1] * x[2], x[2] * y[2])
RSub(x, y) == R(x[1] * y[2] - y[1] * x[2], x[2] * y[2])
RMul(x, y) == R(x[1] * y[1], x[2] * y[2])
RLt(x, y) == x[1] * y[2] < y[1] * x[2]
RLe(x, y) == x[1] * y[2] <= y[1] * x[2]

Zero == R(0, 1)
OneR == R(1, 1)

None == 0

(***************************************************************************)
(* Data classes: the objects a heap cell can hold.                         *)
(***************************************************************************)
LearningStyle(v, a, r, k) ==
    [kind |-> "LearningStyle", visual |-> v, auditory |-> a, reading |-> r,
     kinesthetic |-> k]

PersonalityProfile(e, n, t, j) ==
    [kind |-> "PersonalityProfile", extraversion |-> e, intuition |-> n,
     thinking |-> t, judging |-> j]

CognitiveProfile(ps, wm, at, ct, as) ==
    [kind |-> "CognitiveProfile", processing_speed |-> ps, working_memory |-> wm,
     analytical_thinking |-> at, creative_thinking |-> ct, attention_span |-> as]

BehavioralProfile(el, pe, hs, cp, sr) ==
    [kind |-> "BehavioralProfile", engagement_level |-> el, persistence |-> pe,
     help_seeking |-> hs, collaboration_preference |-> cp, self_regulation |-> sr]

ListObject(items) == [kind |-> "list", items |-> items]

\* The field defaults of the data classes.
DefaultLearningStyle == LearningStyle(R(1, 4), R(1, 4), R(1, 4), R(1, 4))
DefaultPersonalityProfile == PersonalityProfile(R(1, 2), R(1, 2), R(1, 2), R(1, 2))
DefaultCognitiveProfile ==
    CognitiveProfile(R(1, 2), R(1, 2), R(1, 2), R(1, 2), R(1, 2))
DefaultBehavioralProfile ==
    BehavioralProfile(R(1, 2), R(1, 2), R(1, 2), R(1, 2), R(1, 2))
DefaultConfidenceLevel == R(3, 5)

\* A LearnerProfile cell: trait groups and lists are held by address.  made_by
\* is a history field (no attribute of the Python object): the call that
\* allocated the cell.
LearnerProfile(learner_id, ls, pers, cog, beh, diff, str, recs, conf, stamp, by) ==
    [kind |-> "LearnerProfile", learner_id |-> learner_id,
     learning_style |-> ls, personality |-> pers, cognitive |-> cog,
     behavioral |-> beh, difficulty_areas |-> diff, strengths |-> str,
     recommended_strategies |-> recs, confidence_level |-> conf,
     last_updated |-> stamp, made_by |-> by]

\* The cells LearnerProfile(learner_id, **a) allocates on top of heap h: the
\* trait objects and lists the caller passes (or the default factories make),
\* then the profile itself, stamped by the default factory of last_updated.
Construct(h, learner_id, a, stamp, by) ==
    LET base == Len(h)
    IN  h \o << a.learning_style, a.personality, a.cognitive, a.behavioral,
                ListObject(a.difficulty_areas), ListObject(a.strengths),
                ListObject(a.recommended_strategies),
                LearnerProfile(learner_id, base + 1, base + 2, base + 3, base + 4,
                               base + 5, base + 6, base + 7,
                               a.confidence_level, stamp, by) >>

\* The address of the profile the last Construct put on heap h.
Newest(h) == Len(h)

Profiles(h) == {a \in 1..Len(h) : h[a].kind = "LearnerProfile"}

(***************************************************************************)
(* Utils.                                                                  *)
(***************************************************************************)
\* _clip01 without its upper bound: max(0.0, x).
_clip01_lower_only(x) == IF RLt(Zero, x) THEN x ELSE Zero

\* float(max(0.0, min(1.0, x)))
_clip01(x) ==
    LET m == IF RLt(x, OneR) THEN x ELSE OneR
    IN  IF RLt(Zero, m) THEN m ELSE Zero

\* Blend with the two weights exchanged: existing * weight + new * (1 - weight).
Blend_swapped(existing, new, weight) ==
    _clip01(RAdd(RMul(existing, weight), RMul(new, RSub(OneR, weight))))

\* Blend with the second factor forgotten: existing * (1 - weight) + new.
Blend_unweighted(existing, new, weight) ==
    _clip01(RAdd(RMul(existing, RSub(OneR, weight)), new))

\* existing * (1 - weight) + new * weight, clipped: the expression every
\* scalar of a merge is computed by.
Blend(existing, new, weight) ==
    _clip01(RAdd(RMul(existing, RSub(OneR, weight)), RMul(new, weight)))

_merge_learning_style(existing, new, weight) ==
    LearningStyle(Blend(existing.visual, new.visual, weight),
                  Blend(existing.auditory, new.auditory, weight),
                  Blend(existing.reading, new.reading, weight),
                  Blend(existing.kinesthetic, new.kinesthetic, weight))

RECURSIVE DedupFrom(_, _, _)
DedupFrom(seq, seen, out) ==
    IF seq = << >> THEN out
    ELSE IF Head(seq) \in seen THEN DedupFrom(Tail(seq), seen, out)
    ELSE DedupFrom(Tail(seq), seen \cup {Head(seq)}, Append(out, Head(seq)))

\* A deduplication that keeps the last occurrence of an element, not the first.
_dedup_keep_last(seq) ==
    LET keep == {i \in DOMAIN seq : \A j \in (i + 1)..Len(seq) : seq[j] # seq[i]}
        F[i \in 0..Len(seq)] ==
            IF i = 0 THEN << >>
            ELSE IF i \in keep THEN Append(F[i - 1], seq[i]) ELSE F[i - 1]
    IN  F[Len(seq)]

\* seen = set(); out = []; for x in seq: if x not in seen: out.append(x); seen.add(x)
_dedup_keep_order(seq) == DedupFrom(seq, {}, << >>)

(***************************************************************************)
(* What callers pass: constructor arguments, weights, identifiers.         *)
(***************************************************************************)
LearnerIds == {"a", "b"}

Args(ls, pers, cog, beh, diff, str, recs, conf) ==
    [learning_style |-> ls, personality |-> pers, cognitive |-> cog,
     behavioral |-> beh, difficulty_areas |-> diff, strengths |-> str,
     recommended_strategies |-> recs, confidence_level |-> conf]

\* LearnerProfile(learner_id): every field from its default factory.
DefaultArgs ==
    Args(DefaultLearningStyle, DefaultPersonalityProfile, DefaultCognitiveProfile,
         DefaultBehavioralProfile, << >>, << >>, << >>, DefaultConfidenceLevel)

\* A profile with scores below 0 and above 1 (the data classes validate nothing).
WildArgs ==
    Args(LearningStyle(R(3, 2), R(-1, 2), R(1, 4), R(1, 1)),
         PersonalityProfile(R(-1, 2), R(3, 2), R(0, 1), R(3, 4)),
         CognitiveProfile(R(3, 2), R(-1, 4), R(1, 2), R(1, 1), R(0, 1)),
         BehavioralProfile(R(2, 1), R(-1, 1), R(1, 4), R(3, 4), R(1, 2)),
         <<"X">>, <<"A", "B">>, <<"S", "S">>, R(3, 2))

\* In-range profiles with distinct scores.
ValidArgs ==
    Args(LearningStyle(R(7, 10), R(1, 10), R(3, 20), R(1, 20)),
         PersonalityProfile(R(3, 10), R(4, 5), R(3, 5), R(11, 20)),
         CognitiveProfile(R(1, 5), R(9, 10), R(0, 1), R(1, 1), R(1, 4)),
         BehavioralProfile(R(1, 1), R(0, 1), R(7, 10), R(2, 5), R(3, 10)),
         <<"X", "Y">>, <<"B", "C">>, << >>, R(1, 5))

OtherArgs ==
    Args(LearningStyle(R(0, 1), R(1, 1), R(1, 2), R(3, 4)),
         PersonalityProfile(R(1, 1), R(0, 1), R(1, 4), R(-1, 4)),
         CognitiveProfile(R(1, 2), R(1, 4), R(5, 4), R(-1, 2), R(4, 5)),
         BehavioralProfile(R(0, 1), R(1, 1), R(-1, 4), R(1, 10), R(5, 2)),
         << >>, <<"C", "A", "C">>, <<"T", "S">>, R(-1, 2))

\* The profiles callers construct in the store specification.
StoreInputs == {<<"a", DefaultArgs>>, <<"b", WildArgs>>}
\* Weights of the store specification.
StoreWeights == {R(1, 2)}
\* Values a caller assigns to confidence_level of a profile it holds.
MutationValues == {R(9, 10)}

(***************************************************************************)
(* ProfileGenerator: the cache and its operations.                         *)
(***************************************************************************)
\* ProfileGenerator(): an empty cache; nothing allocated; the clock at 0.
Init ==
    /\ heap = << >>
    /\ profile_cache = [id \in LearnerIds |-> None]
    /\ now = 0
    /\ last = [op |-> "init"]

\* datetime.utcnow() moves on between two calls.
Tick ==
    /\ now < MaxTime
    /\ now' = now + 1
    /\ last' = [op |-> "tick"]
    /\ UNCHANGED <<heap, profile_cache>>

\* A caller constructs LearnerProfile(learner_id, ...).
NewLearnerProfile(learner_id, a) ==
    /\ Cardinality(Profiles(heap)) < MaxProfiles
    /\ heap' = Construct(heap, learner_id, a, now, [op |-> "LearnerProfile"])
    /\ last' = [op |-> "LearnerProfile", ret |-> Newest(heap')]
    /\ UNCHANGED <<profile_cache, now>>

\* A caller assigns profile.confidence_level = v on an object it holds (every
\* profile object was handed to the caller by its constructor, by
\* merge_profiles or by get).
CallerAssign(profile, v) ==
    /\ heap[profile].confidence_level # v
    /\ heap' = [heap EXCEPT ![profile].confidence_level = v]
    /\ last' = [op |-> "assign", profile |-> profile]
    /\ UNCHANGED <<profile_cache, now>>

\* A get that takes the entry out of the cache: self.profile_cache.pop(learner_id, None).
get_pop(learner_id) ==
    /\ last' = [op |-> "get", learner_id |-> learner_id,
                ret |-> profile_cache[learner_id]]
    /\ profile_cache' = [profile_cache EXCEPT ![learner_id] = None]
    /\ UNCHANGED <<heap, now>>

\* return self.profile_cache.get(learner_id)
get(learner_id) ==
    /\ last' = [op |-> "get", learner_id |-> learner_id,
                ret |-> profile_cache[learner_id]]
    /\ UNCHANGED <<heap, profile_cache, now>>

\* set without its stamp: last_updated stays what the profile carried.
SetStamp_kept(profile) == heap[profile].last_updated

\* profile.last_updated = datetime.utcnow()
SetStamp(profile) == now

\* self.profile_cache[profile.learner_id] = profile
SetKey(profile) == heap[profile].learner_id

set(profile) ==
    /\ heap' = [heap EXCEPT ![profile].last_updated = SetStamp(profile)]
    /\ profile_cache' = [profile_cache EXCEPT ![SetKey(profile)] = profile]
    /\ last' = [op |-> "set", profile |-> profile,
                old_stamp |-> heap[profile].last_updated]
    /\ UNCHANGED now

\* The weight used as given, not clipped.
MergeWeight_unclipped(weight) == weight

\* weight = _clip01(weight)
MergeWeight(weight) == _clip01(weight)

\* The identifier taken from the incoming profile.
MergedLearnerId_new(existing, new) == heap[new].learner_id

\* learner_id = existing.learner_id
MergedLearnerId(existing, new) == heap[existing].learner_id

\* A merge that returns the fields of existing and ignores new.
Merged_existing_only(existing, new, weight) ==
    LET e == heap[existing]
    IN  Args(heap[e.learning_style], heap[e.personality], heap[e.cognitive],
             heap[e.behavioral], heap[e.difficulty_areas].items,
             heap[e.strengths].items, heap[e.recommended_strategies].items,
             e.confidence_level)

\* The field values merge_profiles computes from existing and new.
Merged(existing, new, weight) ==
    LET w == MergeWeight(weight)
        e == heap[existing]
        n == heap[new]
        ep == heap[e.personality]
        np == heap[n.personality]
        ec == heap[e.cognitive]
        nc == heap[n.cognitive]
        eb == heap[e.behavioral]
        nb == heap[n.behavioral]
        merged_learning_style ==
            _merge_learning_style(heap[e.learning_style], heap[n.learning_style], w)
        merged_personality ==
            PersonalityProfile(Blend(ep.extraversion, np.extraversion, w),
                               Blend(ep.intuition, np.intuition, w),
                               Blend(ep.thinking, np.thinking, w),
                               Blend(ep.judging, np.judging, w))
        merged_cognitive ==
            CognitiveProfile(Blend(ec.processing_speed, nc.processing_speed, w),
                             Blend(ec.working_memory, nc.working_memory, w),
                             Blend(ec.analytical_thinking, nc.analytical_thinking, w),
                             Blend(ec.creative_thinking, nc.creative_thinking, w),
                             Blend(ec.attention_span, nc.attention_span, w))
        merged_behavioral ==
            BehavioralProfile(Blend(eb.engagement_level, nb.engagement_level, w),
                              Blend(eb.persistence, nb.persistence, w),
                              Blend(eb.help_seeking, nb.help_seeking, w),
                              Blend(eb.collaboration_preference,
                                    nb.collaboration_preference, w),
                              Blend(eb.self_regulation, nb.self_regulation, w))
        merged_strengths ==
            _dedup_keep_order(heap[e.strengths].items \o heap[n.strengths].items)
        merged_difficulties ==
            _dedup_keep_order(heap[e.difficulty_areas].items
                              \o heap[n.difficulty_areas].items)
        merged_recommendations ==
            _dedup_keep_order(heap[e.recommended_strategies].items
                              \o heap[n.recommended_strategies].items)
        merged_confidence == Blend(e.confidence_level, n.confidence_level, w)
    IN  Args(merged_learning_style, merged_personality, merged_cognitive,
             merged_behavioral, merged_difficulties, merged_strengths,
             merged_recommendations, merged_confidence)

\* A merge that hands existing's strengths list object to the merged profile
\* when incoming adds nothing to it, in place of a new list.
MergeHeap_shared(existing, new, weight) ==
    LET h == Construct(heap, MergedLearnerId(existing, new),
                       Merged(existing, new, weight), now,
                       [op |-> "merge_profiles", existing |-> existing,
                        new |-> new, weight |-> weight])
        p == Newest(h)
    IN  IF h[h[p].strengths].items = heap[heap[existing].strengths].items
        THEN [h EXCEPT ![p].strengths = heap[existing].strengths]
        ELSE h

\* The heap after merge_profiles(existing, new, weight): the merged trait
\* objects, the merged lists and the LearnerProfile built from them are new
\* cells, stamped lp.last_updated = datetime.utcnow(); no existing cell is
\* written.
MergeHeap(existing, new, weight) ==
    Construct(heap, MergedLearnerId(existing, new), Merged(existing, new, weight),
              now,
              [op |-> "merge_profiles", existing |-> existing, new |-> new,
               weight |-> weight])

merge_profiles(existing, new, weight) ==
    /\ Cardinality(Profiles(heap)) < MaxProfiles
    /\ heap' = MergeHeap(existing, new, weight)
    /\ last' = [op |-> "merge_profiles", existing |-> existing, new |-> new,
                weight |-> weight, ret |-> Newest(heap')]
    /\ UNCHANGED <<profile_cache, now>>

Next ==
    \/ Tick
    \/ \E c \in StoreInputs : NewLearnerProfile(c[1], c[2])
    \/ \E id \in LearnerIds : get(id)
    \/ \E p \in Profiles(heap) : set(p)
    \/ \E e \in Profiles(heap), n \in Profiles(heap), w \in StoreWeights :
          merge_profiles(e, n, w)

Spec == Init /\ [][Next]_vars

\* The store with callers that also assign to attributes of the profile
\* objects they hold.
NextAliasing ==
    \/ Next
    \/ \E p \in Profiles(heap), v \in MutationValues : CallerAssign(p, v)

SpecAliasing == Init /\ [][NextAliasing]_vars

(***************************************************************************)
(* Inference of the discrete labels.                                       *)
(***************************************************************************)
\* max(items, key=value): the first item, in the order given, whose value no
\* later item exceeds.
RECURSIVE MaxFrom(_, _, _, _)
MaxFrom(keys, value, i, best) ==
    IF i > Len(keys) THEN best
    ELSE IF RLt(value[best], value[keys[i]])
         THEN MaxFrom(keys, value, i + 1, keys[i])
         ELSE MaxFrom(keys, value, i + 1, best)

\* A max that keeps the last of several maximal items.
MaxKey_last(keys, value) ==
    LET rev == [i \in 1..Len(keys) |-> keys[Len(keys) + 1 - i]]
    IN  MaxFrom(rev, value, 2, rev[1])

MaxKey(keys, value) == MaxFrom(keys, value, 2, keys[1])

_infer_vark_from_learning_style(ls) ==
    LET scores == [V |-> _clip01(ls.visual), A |-> _clip01(ls.auditory),
                   R |-> _clip01(ls.reading), K |-> _clip01(ls.kinesthetic)]
        label == MaxKey(<<"V", "A", "R", "K">>, scores)
    IN  <<label, scores>>

\* Thresholds that give the negative letter to an axis equal to 0.5.
_infer_mbti_from_personality_strict(pers) ==
    LET E == _clip01(pers.extraversion)
        N == _clip01(pers.intuition)
        T == _clip01(pers.thinking)
        J == _clip01(pers.judging)
        half == R(1, 2)
        mbti == (IF RLt(half, E) THEN "E" ELSE "I")
                \o (IF RLt(half, N) THEN "N" ELSE "S")
                \o (IF RLt(half, T) THEN "T" ELSE "F")
                \o (IF RLt(half, J) THEN "J" ELSE "P")
        scores == [E |-> E, I |-> RSub(OneR, E), N |-> N, S |-> RSub(OneR, N),
                   T |-> T, F |-> RSub(OneR, T), J |-> J, P |-> RSub(OneR, J)]
    IN  <<mbti, scores>>

_infer_mbti_from_personality(pers) ==
    LET E == _clip01(pers.extraversion)
        N == _clip01(pers.intuition)
        T == _clip01(pers.thinking)
        J == _clip01(pers.judging)
        half == R(1, 2)
        mbti == (IF RLe(half, E) THEN "E" ELSE "I")
                \o (IF RLe(half, N) THEN "N" ELSE "S")
                \o (IF RLe(half, T) THEN "T" ELSE "F")
                \o (IF RLe(half, J) THEN "J" ELSE "P")
        scores == [E |-> E, I |-> RSub(OneR, E), N |-> N, S |-> RSub(OneR, N),
                   T |-> T, F |-> RSub(OneR, T), J |-> J, P |-> RSub(OneR, J)]
    IN  <<mbti, scores>>

\* features.get(key, default)
FeatureGet(features, key, default) ==
    IF key \in DOMAIN features THEN features[key] ELSE default

\* A lookup that prefers the unprefixed alias.
Feature_alias_first(features, prefixed, alias, default) ==
    FeatureGet(features, alias, FeatureGet(features, prefixed, default))

\* float(features.get(prefixed, features.get(alias, default)))
Feature(features, prefixed, alias, default) ==
    FeatureGet(features, prefixed, FeatureGet(features, alias, default))

\* A confidence averaged over the four axes: the mean of the larger letter
\* score of each axis.
MbtiConf_axis_mean(mbti_scores) ==
    LET larger(x, y) == IF RLt(x, y) THEN y ELSE x
    IN  RMul(R(1, 4),
             RAdd(RAdd(larger(mbti_scores.E, mbti_scores.I),
                       larger(mbti_scores.N, mbti_scores.S)),
                  RAdd(larger(mbti_scores.T, mbti_scores.F),
                       larger(mbti_scores.J, mbti_scores.P))))

\* A confidence that looks only at the letters E, N, T, J, not at their
\* complements.
MbtiConf_named_letters(mbti_scores) ==
    mbti_scores[MaxKey(<<"E", "N", "T", "J">>, mbti_scores)]

\* max(mbti_scores.values())
MbtiConf(mbti_scores) ==
    mbti_scores[MaxKey(<<"E", "I", "N", "S", "T", "F", "J", "P">>, mbti_scores)]

\* The value get_profiles_for_conversation(features) returns.
ProfilesForConversation(features) ==
    LET ls == LearningStyle(
                  Feature(features, "ls_visual", "visual", R(1, 4)),
                  Feature(features, "ls_auditory", "auditory", R(1, 4)),
                  Feature(features, "ls_reading", "reading", R(1, 4)),
                  Feature(features, "ls_kinesthetic", "kinesthetic", R(1, 4)))
        pers == PersonalityProfile(
                  Feature(features, "pers_extraversion", "extraversion", R(1, 2)),
                  Feature(features, "pers_intuition", "intuition", R(1, 2)),
                  Feature(features, "pers_thinking", "thinking", R(1, 2)),
                  Feature(features, "pers_judging", "judging", R(1, 2)))
        vark == _infer_vark_from_learning_style(ls)
        mbti == _infer_mbti_from_personality(pers)
        vark_scores == vark[2]
        mbti_scores == mbti[2]
        combined_scores ==
            [VARK_V |-> vark_scores.V, VARK_A |-> vark_scores.A,
             VARK_R |-> vark_scores.R, VARK_K |-> vark_scores.K,
             MBTI_E |-> mbti_scores.E, MBTI_I |-> mbti_scores.I,
             MBTI_N |-> mbti_scores.N, MBTI_S |-> mbti_scores.S,
             MBTI_T |-> mbti_scores.T, MBTI_F |-> mbti_scores.F,
             MBTI_J |-> mbti_scores.J, MBTI_P |-> mbti_scores.P]
        conf == MbtiConf(mbti_scores)
    IN  [VARK |-> [label |-> vark[1], proba |-> vark_scores],
         MBTI |-> [label |-> mbti[1], conf |-> conf],
         scores |-> combined_scores]

get_profiles_for_conversation(features) ==
    /\ last' = [op |-> "get_profiles_for_conversation", features |-> features,
                ret |-> ProfilesForConversation(features)]
    /\ UNCHANGED <<heap, profile_cache, now>>

(***************************************************************************)
(* merge_profiles and get_profiles_for_conversation as functions of their  *)
(* arguments: the initial states hold one pair of caller-made profiles,    *)
(* existing ("a") and incoming ("b"), drawn from PureArgs.                 *)
(***************************************************************************)
PureArgs == {DefaultArgs, WildArgs, ValidArgs, OtherArgs}
PureWeights == {R(-1, 2), R(0, 1), R(1, 4), R(1, 1), R(3, 2)}

\* The manual test of the module (its __main__ block).
MainFeatures ==
    ("ls_visual" :> R(7, 10)) @@ ("ls_auditory" :> R(1, 10))
    @@ ("ls_reading" :> R(3, 20)) @@ ("ls_kinesthetic" :> R(1, 20))
    @@ ("pers_extraversion" :> R(3, 10)) @@ ("pers_intuition" :> R(4, 5))
    @@ ("pers_thinking" :> R(3, 5)) @@ ("pers_judging" :> R(11, 20))

NoFeatures == [k \in {} |-> Zero]

PureFeatures ==
    { NoFeatures,
      MainFeatures,
      \* scores above 1 and below 0
      ("ls_visual" :> R(3, 2)) @@ ("ls_auditory" :> R(-1, 2))
        @@ ("pers_extraversion" :> R(-1, 2)) @@ ("pers_judging" :> R(5, 2)),
      \* unprefixed aliases
      ("visual" :> R(1, 5)) @@ ("kinesthetic" :> R(2, 1))
        @@ ("intuition" :> R(-3, 1)) @@ ("thinking" :> R(2, 5)),
      \* both spellings of one axis
      ("ls_reading" :> R(9, 10)) @@ ("reading" :> R(-1, 1))
        @@ ("pers_thinking" :> R(1, 2)) @@ ("thinking" :> R(7, 2)) }

InitPure ==
    /\ \E x \in PureArgs, y \in PureArgs :
          heap = Construct(Construct(<< >>, "a", x, 0, [op |-> "LearnerProfile"]),
                           "b", y, 0, [op |-> "LearnerProfile"])
    /\ profile_cache = [id \in LearnerIds |-> None]
    /\ now = 0
    /\ last = [op |-> "init"]

NextPure ==
    \/ \E e \in Profiles(heap), n \in Profiles(heap), w \in PureWeights :
          merge_profiles(e, n, w)
    \/ \E f \in PureFeatures : get_profiles_for_conversation(f)

SpecPure == InitPure /\ [][NextPure]_vars

(***************************************************************************)
(* Readings of the state the properties are stated in.                     *)
(***************************************************************************)
\* The 18 trait scores and confidence_level of the profile at address p.
Scores(h, p) ==
    LET ls == h[h[p].learning_style]
        pe == h[h[p].personality]
        co == h[h[p].cognitive]
        be == h[h[p].behavioral]
    IN  << ls.visual, ls.auditory, ls.reading, ls.kinesthetic,
           pe.extraversion, pe.intuition, pe.thinking, pe.judging,
           co.processing_speed, co.working_memory, co.analytical_thinking,
           co.creative_thinking, co.attention_span,
           be.engagement_level, be.persistence, be.help_seeking,
           be.collaboration_preference, be.self_regulation,
           h[p].confidence_level >>

\* The three text lists of the profile at address p: strengths,
\* difficulty_areas, recommended_strategies.
Lists(h, p) ==
    << h[h[p].strengths].items, h[h[p].difficulty_areas].items,
       h[h[p].recommended_strategies].items >>

\* The addresses of the trait objects and lists the profile at p refers to.
Refs(h, p) ==
    { h[p].learning_style, h[p].personality, h[p].cognitive, h[p].behavioral,
      h[p].difficulty_areas, h[p].strengths, h[p].recommended_strategies }

\* What the cache holds for an identifier, by value: nothing, or the content
\* of the cached profile.
Cached(id) ==
    IF profile_cache[id] = None THEN {}
    ELSE LET p == profile_cache[id]
         IN  {[learner_id |-> heap[p].learner_id, scores |-> Scores(heap, p),
               lists |-> Lists(heap, p), last_updated |-> heap[p].last_updated]}

\* The profiles merge_profiles returned.
MergedProfiles == {p \in Profiles(heap) : heap[p].made_by.op = "merge_profiles"}

InUnit(x) == RLe(Zero, x) /\ RLe(x, OneR)

\* x clamped to [0,1].
Clamp01(x) == IF RLt(x, Zero) THEN Zero ELSE IF RLt(OneR, x) THEN OneR ELSE x

\* x*(1-w) + y*w clamped to [0,1].
Mix(x, y, w) == Clamp01(RAdd(RMul(x, RSub(OneR, w)), RMul(y, w)))

\* The index of the first occurrence of x in seq.
First(seq, x) ==
    CHOOSE i \in DOMAIN seq : seq[i] = x /\ \A j \in 1..(i - 1) : seq[j] # x

\* out holds exactly the elements of seq, each once, in the order of their
\* first occurrences in seq.
IsFirstOccurrences(seq, out) ==
    /\ {out[i] : i \in DOMAIN out} = {seq[i] : i \in DOMAIN seq}
    /\ \A i, j \in DOMAIN out : i < j =>
          /\ out[i] # out[j]
          /\ First(seq, out[i]) < First(seq, out[j])

(***************************************************************************)
(* C1.  Every numeric field of every profile held in profile_cache lies in *)
(* [0,1] after any sequence of operations on caller-constructed profiles   *)
(* (set clamps what it writes).  The code's set stores the caller's object *)
(* as it is, so this fails.                                                *)
(***************************************************************************)
C1_CachedScoresInUnitInterval ==
    \A id \in LearnerIds :
        profile_cache[id] # None =>
            \A k \in 1..19 : InUnit(Scores(heap, profile_cache[id])[k])

(***************************************************************************)
(* C2.  Every score get_profiles_for_conversation produces (each VARK      *)
(* proba entry, the MBTI conf, each combined score) and every numeric      *)
(* field of a profile merge_profiles returns lies in [0,1], whatever the   *)
(* input scores and the weight are.                                        *)
(***************************************************************************)
C2_ProducedScoresInUnitInterval ==
    /\ \A p \in MergedProfiles : \A k \in 1..19 : InUnit(Scores(heap, p)[k])
    /\ last.op = "get_profiles_for_conversation" =>
          /\ \A l \in DOMAIN last.ret.VARK.proba : InUnit(last.ret.VARK.proba[l])
          /\ InUnit(last.ret.MBTI.conf)
          /\ \A l \in DOMAIN last.ret.scores : InUnit(last.ret.scores[l])

\* Reached: an inference on features outside [0,1], in a state that holds a
\* profile merged with a weight outside [0,1] from scores outside [0,1].
C2_Witness ==
    /\ last.op = "get_profiles_for_conversation"
    /\ \E l \in DOMAIN last.features : ~InUnit(last.features[l])
    /\ \E p \in MergedProfiles :
          /\ ~InUnit(heap[p].made_by.weight)
          /\ \E k \in 1..19 : ~InUnit(Scores(heap, heap[p].made_by.existing)[k])
          /\ \E k \in 1..19 : ~InUnit(Scores(heap, heap[p].made_by.new)[k])

(***************************************************************************)
(* C3.  merge_profiles rejects no weight (the action has no guard on it);  *)
(* with w the weight clamped to [0,1], each of the 19 numeric fields of    *)
(* the result is clamp01(existing*(1-w) + incoming*w), so a weight above 1 *)
(* gives what weight 1 gives and a weight below 0 what weight 0 gives.     *)
(***************************************************************************)
C3_MergeIsClampedBlend ==
    \A p \in MergedProfiles :
        LET m == heap[p].made_by
            x == Scores(heap, m.existing)
            y == Scores(heap, m.new)
        IN  \A k \in 1..19 :
              /\ Scores(heap, p)[k] = Mix(x[k], y[k], Clamp01(m.weight))
              /\ RLt(OneR, m.weight) => Scores(heap, p)[k] = Mix(x[k], y[k], OneR)
              /\ RLt(m.weight, Zero) => Scores(heap, p)[k] = Mix(x[k], y[k], Zero)

\* Reached: a merge with a weight above 1 of two profiles that differ.
C3_Witness ==
    /\ last.op = "merge_profiles"
    /\ RLt(OneR, last.weight)
    /\ Scores(heap, last.existing) # Scores(heap, last.new)
    /\ \E k \in 1..19 : Scores(heap, last.ret)[k] # Scores(heap, last.new)[k]

(***************************************************************************)
(* C4 as claimed.  merge_profiles(existing, incoming, 0) equals existing   *)
(* and merge_profiles(existing, incoming, 1) equals incoming in all trait  *)
(* scores, confidence_level and the three text lists.                      *)
(***************************************************************************)
C4_Original ==
    \A p \in MergedProfiles :
        LET m == heap[p].made_by
        IN  /\ m.weight = Zero =>
                 /\ Scores(heap, p) = Scores(heap, m.existing)
                 /\ Lists(heap, p) = Lists(heap, m.existing)
            /\ m.weight = OneR =>
                 /\ Scores(heap, p) = Scores(heap, m.new)
                 /\ Lists(heap, p) = Lists(heap, m.new)

(***************************************************************************)
(* C4 amended.  With weight 0 every numeric field of the result is         *)
(* clamp01 of existing's field, with weight 1 clamp01 of incoming's (equal *)
(* to the field itself when it lies in [0,1]); with either weight each of  *)
(* the three text lists is the first-occurrence deduplication of           *)
(* existing + incoming, not the list of one side.                          *)
(***************************************************************************)
C4_EndpointsOfBlend ==
    \A p \in MergedProfiles :
        LET m == heap[p].made_by
            side == IF m.weight = Zero THEN m.existing ELSE m.new
        IN  m.weight \in {Zero, OneR} =>
              /\ \A k \in 1..19 :
                    /\ Scores(heap, p)[k] = Clamp01(Scores(heap, side)[k])
                    /\ InUnit(Scores(heap, side)[k]) =>
                          Scores(heap, p)[k] = Scores(heap, side)[k]
              /\ \A j \in 1..3 :
                    IsFirstOccurrences(Lists(heap, m.existing)[j]
                                       \o Lists(heap, m.new)[j],
                                       Lists(heap, p)[j])

\* Reached: a merge with weight 0 whose existing profile has a score outside
\* [0,1] and whose incoming profile brings a list element existing lacks.
C4_Witness ==
    /\ last.op = "merge_profiles"
    /\ last.weight = Zero
    /\ \E k \in 1..19 : ~InUnit(Scores(heap, last.existing)[k])
    /\ Scores(heap, last.existing) # Scores(heap, last.new)
    /\ Lists(heap, last.ret) # Lists(heap, last.existing)

(***************************************************************************)
(* C5 as claimed.  merge_profiles(p, p, w) returns a profile whose numeric *)
(* fields equal those of p, for every profile p and every weight w.        *)
(***************************************************************************)
C5_Original ==
    \A p \in MergedProfiles :
        LET m == heap[p].made_by
        IN  m.existing = m.new => Scores(heap, p) = Scores(heap, m.existing)

(***************************************************************************)
(* C5 amended.  merge_profiles(p, p, w) returns a profile whose numeric    *)
(* fields are clamp01 of those of p, for every weight w: equal to p's      *)
(* where p's field lies in [0,1], and 0 or 1 where it lies outside.        *)
(***************************************************************************)
C5_SelfMergeIsClamp ==
    \A p \in MergedProfiles :
        LET m == heap[p].made_by
        IN  Scores(heap, m.existing) = Scores(heap, m.new) =>
              \A k \in 1..19 :
                 /\ Scores(heap, p)[k] = Clamp01(Scores(heap, m.existing)[k])
                 /\ InUnit(Scores(heap, m.existing)[k]) =>
                       Scores(heap, p)[k] = Scores(heap, m.existing)[k]

\* Reached: merge_profiles(p, p, 1/4) of a profile p with a score outside
\* [0,1] and a score strictly inside.
C5_Witness ==
    /\ last.op = "merge_profiles"
    /\ last.existing = last.new
    /\ last.weight = R(1, 4)
    /\ \E k \in 1..19 : ~InUnit(Scores(heap, last.existing)[k])
    /\ \E k \in 1..19 : /\ RLt(Zero, Scores(heap, last.existing)[k])
                        /\ RLt(Scores(heap, last.existing)[k], OneR)

(***************************************************************************)
(* C6.  Each merged text list holds exactly the elements of                *)
(* existing + incoming, each once, in the order of their first             *)
(* occurrences, whatever the weight: [A,B] merged with [B,C] is [A,B,C].   *)
(***************************************************************************)
C6_ListsAreOrderedUnion ==
    \A p \in MergedProfiles :
        LET m == heap[p].made_by
        IN  /\ \A j \in 1..3 :
                  IsFirstOccurrences(Lists(heap, m.existing)[j]
                                     \o Lists(heap, m.new)[j],
                                     Lists(heap, p)[j])
            /\ ( /\ Lists(heap, m.existing)[1] = <<"A", "B">>
                 /\ Lists(heap, m.new)[1] = <<"B", "C">> )
               => Lists(heap, p)[1] = <<"A", "B", "C">>

\* Reached: strengths [A,B] merged with [B,C], and a list with a repeated
\* element among the inputs.
C6_Witness ==
    /\ last.op = "merge_profiles"
    /\ Lists(heap, last.existing)[1] = <<"A", "B">>
    /\ Lists(heap, last.new)[1] = <<"B", "C">>
    /\ Lists(heap, last.existing)[3] = <<"S", "S">>
    /\ Lists(heap, last.ret)[1] = <<"A", "B", "C">>

(***************************************************************************)
(* C7.  The profile merge_profiles(existing, incoming, w) returns carries  *)
(* existing's learner_id, also when incoming's differs; so a set of a      *)
(* merged profile writes the cache entry of existing's identifier and no   *)
(* other entry, in particular not incoming's.                              *)
(***************************************************************************)
C7_MergeKeepsIdentity ==
    /\ [](\A p \in MergedProfiles :
             heap[p].learner_id = heap[heap[p].made_by.existing].learner_id)
    /\ [][ (last'.op = "set" /\ last'.profile \in MergedProfiles) =>
             LET id == heap[heap[last'.profile].made_by.existing].learner_id
             IN  /\ profile_cache'[id] = last'.profile
                 /\ \A k \in LearnerIds \ {id} : profile_cache'[k] = profile_cache[k]
         ]_vars

\* Reached: set has just stored a profile merged from an existing and an
\* incoming profile with different identifiers; incoming's entry is empty.
C7_Witness ==
    /\ last.op = "set"
    /\ last.profile \in MergedProfiles
    /\ LET m == heap[last.profile].made_by
       IN  /\ heap[m.existing].learner_id # heap[m.new].learner_id
           /\ profile_cache[heap[m.existing].learner_id] = last.profile
           /\ profile_cache[heap[m.new].learner_id] = None

(***************************************************************************)
(* C8.  merge_profiles persists nothing: a call leaves profile_cache and   *)
(* every existing object (both arguments, with their scores, lists and     *)
(* timestamps) unchanged; the profile it returns, its four trait objects   *)
(* and its three lists are new objects, shared with no argument; the       *)
(* merged profile is in the cache only after a set.                        *)
(***************************************************************************)
C8_MergePersistsNothing ==
    /\ [][ last'.op = "merge_profiles" =>
             /\ profile_cache' = profile_cache
             /\ \A a \in DOMAIN heap : heap'[a] = heap[a]
             /\ last'.ret \in Profiles(heap') \ DOMAIN heap
             /\ Refs(heap', last'.ret) \cap DOMAIN heap = {}
             /\ Cardinality(Refs(heap', last'.ret)) = 7
             /\ \A id \in LearnerIds : profile_cache'[id] # last'.ret
         ]_vars
    /\ [][ \A id \in LearnerIds :
             profile_cache'[id] # profile_cache[id] =>
                (last'.op = "set" /\ last'.profile = profile_cache'[id])
         ]_vars

\* Reached: merge_profiles has just returned; its existing argument is the
\* cached profile, stamped earlier than the result, and has the same
\* strengths as the result.
C8_Witness ==
    /\ last.op = "merge_profiles"
    /\ last.existing # last.new
    /\ profile_cache[heap[last.existing].learner_id] = last.existing
    /\ heap[last.existing].last_updated # heap[last.ret].last_updated
    /\ Lists(heap, last.ret)[1] = Lists(heap, last.existing)[1]

(***************************************************************************)
(* C9.  set(p) stores p under p.learner_id and overwrites p.last_updated   *)
(* with the time of the call, whatever stamp p carried (one of an earlier  *)
(* merge_profiles included), changing nothing else of p; no other          *)
(* identifier's entry and no other object changes; get of that identifier  *)
(* then returns p.                                                         *)
(***************************************************************************)
C9_SetStampsAndStores ==
    /\ [][ last'.op = "set" =>
             LET p == last'.profile
                 id == heap[p].learner_id
             IN  /\ profile_cache'[id] = p
                 /\ heap'[p] = [heap[p] EXCEPT !.last_updated = now]
                 /\ last'.old_stamp = heap[p].last_updated
                 /\ \A k \in LearnerIds \ {id} :
                       /\ profile_cache'[k] = profile_cache[k]
                       /\ Cached(k)' = Cached(k)
                 /\ DOMAIN heap' = DOMAIN heap
                 /\ \A a \in DOMAIN heap \ {p} : heap'[a] = heap[a]
         ]_vars
    /\ [][ last'.op = "get" =>
             /\ last'.ret = profile_cache[last'.learner_id]
             /\ (last.op = "set" /\ heap[last.profile].learner_id = last'.learner_id)
                   => last'.ret = last.profile
             /\ UNCHANGED <<heap, profile_cache>>
         ]_vars

\* Reached: set has just stored a profile that merge_profiles had stamped at an
\* earlier time, while the other identifier has an entry too.
C9_Witness ==
    /\ last.op = "set"
    /\ last.profile \in MergedProfiles
    /\ last.old_stamp # now
    /\ heap[last.profile].last_updated = now
    /\ \A id \in LearnerIds : profile_cache[id] # None

(***************************************************************************)
(* C10.  The store alone owns what it caches: the content of the profile   *)
(* cached for an identifier changes only by a set call for that            *)
(* identifier, also when a caller assigns to a field of an object it       *)
(* passed to set or obtained from get.  The code caches and hands out      *)
(* references, so this fails.                                              *)
(***************************************************************************)
C10_CacheChangesOnlyBySet ==
    [][ \A id \in LearnerIds :
          Cached(id)' # Cached(id) =>
             (last'.op = "set" /\ heap[last'.profile].learner_id = id)
      ]_vars

(***************************************************************************)
(* Export: export_profile and the text json.dumps writes.                  *)
(***************************************************************************)
\* learner_id in self.profile_cache
InCache(learner_id) == profile_cache[learner_id] # None

\* The keys of self.profile_cache.
CacheKeys == {id \in DOMAIN profile_cache : InCache(id)}

\* The digits after the decimal point of r/d (r < d), as repr(float) prints
\* them for the short decimals the model's scores are.
RECURSIVE FracDigits(_, _, _)
FracDigits(r, d, k) ==
    IF r = 0 \/ k = 0 THEN ""
    ELSE ToString((r * 10) \div d) \o FracDigits((r * 10) % d, d, k - 1)

\* json.dumps of a float: sign, integer part, ".", digits ("1.0", "-0.5",
\* "0.25").
JsonFloat(x) ==
    LET n == Abs(x[1])
        frac == FracDigits(n % x[2], x[2], 17)
    IN  (IF x[1] < 0 THEN "-" ELSE "") \o ToString(n \div x[2]) \o "."
        \o (IF frac = "" THEN "0" ELSE frac)

JsonString(s) == "\"" \o s \o "\""

\* json.dumps of a list of strings.
RECURSIVE JsonItems(_, _)
JsonItems(seq, i) ==
    IF i > Len(seq) THEN ""
    ELSE (IF i > 1 THEN ", " ELSE "") \o JsonString(seq[i]) \o JsonItems(seq, i + 1)

JsonList(seq) == "[" \o JsonItems(seq, 1) \o "]"

\* profile.last_updated.isoformat(): the text of a clock reading.
isoformat(stamp) == "T" \o ToString(stamp)

\* json.dumps(d) for d = asdict(profile) with d["last_updated"] replaced by its
\* isoformat(): the fields in declaration order, nested data classes as
\* nested objects (the line breaks of indent=2 are left out).
JsonDumps(h, p) ==
    LET ls == h[h[p].learning_style]
        pe == h[h[p].personality]
        co == h[h[p].cognitive]
        be == h[h[p].behavioral]
    IN  "{\"learner_id\": " \o JsonString(h[p].learner_id)
        \o ", \"learning_style\": {\"visual\": " \o JsonFloat(ls.visual)
        \o ", \"auditory\": " \o JsonFloat(ls.auditory)
        \o ", \"reading\": " \o JsonFloat(ls.reading)
        \o ", \"kinesthetic\": " \o JsonFloat(ls.kinesthetic)
        \o "}, \"personality\": {\"extraversion\": " \o JsonFloat(pe.extraversion)
        \o ", \"intuition\": " \o JsonFloat(pe.intuition)
        \o ", \"thinking\": " \o JsonFloat(pe.thinking)
        \o ", \"judging\": " \o JsonFloat(pe.judging)
        \o "}, \"cognitive\": {\"processing_speed\": " \o JsonFloat(co.processing_speed)
        \o ", \"working_memory\": " \o JsonFloat(co.working_memory)
        \o ", \"analytical_thinking\": " \o JsonFloat(co.analytical_thinking)
        \o ", \"creative_thinking\": " \o JsonFloat(co.creative_thinking)
        \o ", \"attention_span\": " \o JsonFloat(co.attention_span)
        \o "}, \"behavioral\": {\"engagement_level\": " \o JsonFloat(be.engagement_level)
        \o ", \"persistence\": " \o JsonFloat(be.persistence)
        \o ", \"help_seeking\": " \o JsonFloat(be.help_seeking)
        \o ", \"collaboration_preference\": "
        \o JsonFloat(be.collaboration_preference)
        \o ", \"self_regulation\": " \o JsonFloat(be.self_regulation)
        \o "}, \"difficulty_areas\": " \o JsonList(h[h[p].difficulty_areas].items)
        \o ", \"strengths\": " \o JsonList(h[h[p].strengths].items)
        \o ", \"recommended_strategies\": "
        \o JsonList(h[h[p].recommended_strategies].items)
        \o ", \"confidence_level\": " \o JsonFloat(h[p].confidence_level)
        \o ", \"last_updated\": " \o JsonString(isoformat(h[p].last_updated))
        \o "}"

\* The format names callers pass as fmt.
Formats == {"json", "JSON", "Json", "xml"}

\* The format name compared as it was passed, in its own letter case.
Lower_as_passed(fmt) == fmt

\* fmt.lower() on the format names above.
Lower(fmt) ==
    CASE fmt = "JSON" -> "json"
      [] fmt = "Json" -> "json"
      [] OTHER -> fmt

\* An export that answers an unknown identifier with the JSON text of null.
NotFoundExport_null == "null"

\* if learner_id not in self.profile_cache: return ""
NotFoundExport == ""

\* The string export_profile(learner_id, fmt) returns.
ExportText(learner_id, fmt) ==
    IF ~InCache(learner_id) THEN NotFoundExport
    ELSE IF Lower(fmt) = "json" THEN JsonDumps(heap, profile_cache[learner_id])
    ELSE ""

export_profile(learner_id, fmt) ==
    /\ last' = [op |-> "export_profile", learner_id |-> learner_id, fmt |-> fmt,
                ret |-> ExportText(learner_id, fmt)]
    /\ UNCHANGED <<heap, profile_cache, now>>

(***************************************************************************)
(* Similarity and ranking: _calculate_profile_similarity and               *)
(* get_similar_learners.                                                   *)
(***************************************************************************)
\* The largest k with k*k <= n.
RECURSIVE ISqrtFrom(_, _)
ISqrtFrom(n, k) == IF (k + 1) * (k + 1) > n THEN k ELSE ISqrtFrom(n, k + 1)

ISqrt(n) == ISqrtFrom(n, 0)

\* The square root of a rational that is the square of a rational (the
\* distances between the profiles of RankingInputs and their merges are).
Sqrt(x) == R(ISqrt(x[1]), ISqrt(x[2]))

\* The sum of the squares of the differences of two vectors of equal length.
RECURSIVE SumSqFrom(_, _, _)
SumSqFrom(u, v, i) ==
    IF i > Len(u) THEN Zero
    ELSE RAdd(RMul(RSub(u[i], v[i]), RSub(u[i], v[i])), SumSqFrom(u, v, i + 1))

\* np.linalg.norm(u - v) / divisor, for divisor 2.0 = sqrt(4) and np.sqrt(5):
\* the root of the sum of squares over the squared divisor.
NormOver(u, v, squared_divisor) ==
    Sqrt(RMul(SumSqFrom(u, v, 1), R(1, squared_divisor)))

\* Group weights that sum to 0.9.
SimilarityWeights_short == <<R(3, 10), R(1, 4), R(1, 4), R(1, 10)>>

\* overall = 0.30 * ls_sim + 0.25 * pr_sim + 0.25 * cg_sim + 0.20 * bh_sim
SimilarityWeights == <<R(3, 10), R(1, 4), R(1, 4), R(1, 5)>>

_calculate_profile_similarity(h, p1, p2) ==
    LET s1 == Scores(h, p1)
        s2 == Scores(h, p2)
        ls_sim == RSub(OneR, NormOver(SubSeq(s1, 1, 4), SubSeq(s2, 1, 4), 4))
        pr_sim == RSub(OneR, NormOver(SubSeq(s1, 5, 8), SubSeq(s2, 5, 8), 4))
        cg_sim == RSub(OneR, NormOver(SubSeq(s1, 9, 13), SubSeq(s2, 9, 13), 5))
        bh_sim == RSub(OneR, NormOver(SubSeq(s1, 14, 18), SubSeq(s2, 14, 18), 5))
        overall == RAdd(RAdd(RMul(SimilarityWeights[1], ls_sim),
                             RMul(SimilarityWeights[2], pr_sim)),
                        RAdd(RMul(SimilarityWeights[3], cg_sim),
                             RMul(SimilarityWeights[4], bh_sim)))
    IN  _clip01(overall)

\* A caller computes the similarity of two profiles it holds.
calculate_profile_similarity(p1, p2) ==
    /\ last' = [op |-> "_calculate_profile_similarity", p1 |-> p1, p2 |-> p2,
                ret |-> _calculate_profile_similarity(heap, p1, p2)]
    /\ UNCHANGED <<heap, profile_cache, now>>

\* The orders in which a dict with the keys S can list them.  The cache does
\* not record the order in which its keys were inserted, so items() may list
\* them in any order.
KeyOrders(S) ==
    {seq \in [1..Cardinality(S) -> S] :
        \A i, j \in 1..Cardinality(S) : i # j => seq[i] # seq[j]}

\* A sort that lists the least similar first.
StaysBefore_ascending(e, x) == RLe(e[2], x[2])

\* sims.sort(key=lambda x: x[1], reverse=True): an entry already placed stays
\* before a later one when it is at least as similar (the sort is stable).
StaysBefore(e, x) == RLe(x[2], e[2])

\* x put into the sorted list out.
InsertSorted(out, x) ==
    LET k == Cardinality({i \in 1..Len(out) : StaysBefore(out[i], x)})
    IN  SubSeq(out, 1, k) \o <<x>> \o SubSeq(out, k + 1, Len(out))

RECURSIVE SortFrom(_, _, _)
SortFrom(sims, i, out) ==
    IF i > Len(sims) THEN out
    ELSE SortFrom(sims, i + 1, InsertSorted(out, sims[i]))

\* seq[:n]
Slice(seq, n) ==
    IF n >= 0 THEN SubSeq(seq, 1, IF n < Len(seq) THEN n ELSE Len(seq))
    ELSE SubSeq(seq, 1, IF Len(seq) + n > 0 THEN Len(seq) + n ELSE 0)

\* The (other_id, similarity) pairs the loop appends, for the items() order.
RECURSIVE SimsFrom(_, _, _)
SimsFrom(learner_id, order, i) ==
    IF i > Len(order) THEN << >>
    ELSE IF order[i] = learner_id THEN SimsFrom(learner_id, order, i + 1)
    ELSE << <<order[i],
              _calculate_profile_similarity(heap, profile_cache[learner_id],
                                            profile_cache[order[i]])>> >>
         \o SimsFrom(learner_id, order, i + 1)

\* The list get_similar_learners(learner_id, n_similar) returns.
SimilarLearners(learner_id, n_similar, order) ==
    IF ~InCache(learner_id) \/ Cardinality(CacheKeys) < 2 THEN << >>
    ELSE LET sims == SortFrom(SimsFrom(learner_id, order, 1), 1, << >>)
             top == Slice(sims, n_similar)
         IN  [i \in 1..Len(top) |-> top[i][1]]

get_similar_learners(learner_id, n_similar) ==
    /\ \E order \in KeyOrders(CacheKeys) :
          last' = [op |-> "get_similar_learners", learner_id |-> learner_id,
                   n_similar |-> n_similar,
                   ret |-> SimilarLearners(learner_id, n_similar, order)]
    /\ UNCHANGED <<heap, profile_cache, now>>

(***************************************************************************)
(* The store with its queries: callers construct profiles, cache them with *)
(* set, and read the cache with get, export_profile and                    *)
(* get_similar_learners.                                                   *)
(***************************************************************************)
RankingIds == {"a", "b", "c"}

\* A profile whose scores are equal within each trait group.
UniformArgs(ls, pers, cog, beh, str, conf) ==
    Args(LearningStyle(ls, ls, ls, ls), PersonalityProfile(pers, pers, pers, pers),
         CognitiveProfile(cog, cog, cog, cog, cog),
         BehavioralProfile(beh, beh, beh, beh, beh), << >>, str, << >>, conf)

\* The profiles callers have constructed, in this order: "b" (learning-style
\* scores 2.75) and the first "c" (personality scores 3.5) are out of range and
\* equally similar to the default profile "a"; the personality similarity of
\* "a" and the first "c" is negative; the second "c" is in range.
RankingInputs ==
    << <<"a", DefaultArgs>>,
       <<"b", UniformArgs(R(11, 4), R(1, 2), R(1, 2), R(1, 2), <<"B">>, R(3, 5))>>,
       <<"c", UniformArgs(R(1, 4), R(7, 2), R(1, 2), R(1, 2), <<"C", "D">>, R(1, 1))>>,
       <<"c", UniformArgs(R(1, 4), R(1, 2), R(0, 1), R(1, 2), << >>, R(3, 10))>> >>

\* The values callers pass as n_similar (5 is the default).
RankingSizes == {-1, 0, 1, 5}

\* The heap after the callers constructed inputs[i], inputs[i+1], ...
RECURSIVE ConstructAll(_, _, _)
ConstructAll(h, inputs, i) ==
    IF i > Len(inputs) THEN h
    ELSE ConstructAll(Construct(h, inputs[i][1], inputs[i][2], 0,
                                [op |-> "LearnerProfile"]),
                      inputs, i + 1)

\* An empty cache, and the profiles of RankingInputs in the hands of callers,
\* who constructed them at an earlier reading of the clock.
InitRanking ==
    /\ heap = ConstructAll(<< >>, RankingInputs, 1)
    /\ profile_cache = [id \in RankingIds |-> None]
    /\ now = 1
    /\ last = [op |-> "init"]

NextRanking ==
    \/ \E p \in Profiles(heap) : set(p)
    \/ \E id \in RankingIds : get(id)
    \/ \E id \in RankingIds, fmt \in Formats : export_profile(id, fmt)
    \/ \E id \in RankingIds, n \in RankingSizes : get_similar_learners(id, n)
    \/ \E p1 \in Profiles(heap), p2 \in Profiles(heap) :
          calculate_profile_similarity(p1, p2)

SpecRanking == InitRanking /\ [][NextRanking]_vars

(***************************************************************************)
(* Properties of export and ranking.                                       *)
(***************************************************************************)
Range(seq) == {seq[i] : i \in 1..Len(seq)}

\* The similarity of the cached profile of other to the cached profile of id.
SimTo(id, other) ==
    _calculate_profile_similarity(heap, profile_cache[id], profile_cache[other])

\* C11: for an identifier that is not in the cache, export_profile returns
\* the empty string and get_similar_learners returns the empty list, and
\* neither call changes the cache or any object.
C11_UnknownIdGivesSentinels ==
    [][ /\ (last'.op = "export_profile" /\ ~InCache(last'.learner_id))
            => (last'.ret = "" /\ UNCHANGED <<heap, profile_cache>>)
        /\ (last'.op = "get_similar_learners" /\ ~InCache(last'.learner_id))
            => (last'.ret = << >> /\ UNCHANGED <<heap, profile_cache>>) ]_vars

\* An export in JSON of an identifier that is not cached, on a store that
\* holds two other identifiers.
C11_Witness ==
    /\ last.op = "export_profile"
    /\ last.fmt = "json"
    /\ ~InCache(last.learner_id)
    /\ Cardinality(CacheKeys) = 2
    /\ last.ret = ""

\* C12: for a cached id and n >= 0, get_similar_learners(id, n) returns
\* min(n, |cache| - 1) distinct cached identifiers other than id, in
\* non-increasing order of similarity to id, and no identifier left out is
\* strictly more similar than one returned; on a store with fewer than two
\* entries it returns [].
C12_TopNBySimilarity ==
    (last.op = "get_similar_learners" /\ last.n_similar >= 0) =>
        LET id == last.learner_id
            n == last.n_similar
            ret == last.ret
            others == CacheKeys \ {id}
        IN  /\ Cardinality(CacheKeys) < 2 => ret = << >>
            /\ InCache(id) =>
                /\ Len(ret) = (IF n < Cardinality(others) THEN n
                               ELSE Cardinality(others))
                /\ Range(ret) \subseteq others
                /\ \A i, j \in 1..Len(ret) : i # j => ret[i] # ret[j]
                /\ \A i, j \in 1..Len(ret) :
                      i < j => RLe(SimTo(id, ret[j]), SimTo(id, ret[i]))
                /\ \A o \in others \ Range(ret) : \A i \in 1..Len(ret) :
                      RLe(SimTo(id, o), SimTo(id, ret[i]))

\* The top 1 of two candidates, the one left out being strictly less similar.
C12_Witness ==
    /\ last.op = "get_similar_learners"
    /\ last.n_similar = 1
    /\ Cardinality(CacheKeys) = 3
    /\ InCache(last.learner_id)
    /\ Len(last.ret) = 1
    /\ \E o \in CacheKeys \ {last.learner_id} :
          RLt(SimTo(last.learner_id, o), SimTo(last.learner_id, last.ret[1]))

\* C13: the similarity of a profile whose scores are in [0,1] to itself (to
\* any profile with the same trait scores) is 1.
C13_SimilarityReflexive ==
    (/\ last.op = "_calculate_profile_similarity"
     /\ SubSeq(Scores(heap, last.p1), 1, 18) = SubSeq(Scores(heap, last.p2), 1, 18)
     /\ \A i \in 1..18 : InUnit(Scores(heap, last.p1)[i]))
        => last.ret = OneR

\* The similarity of an in-range profile object to itself, on a heap where a
\* different pair of profiles is less than fully similar.
C13_Witness ==
    /\ last.op = "_calculate_profile_similarity"
    /\ last.p1 = last.p2
    /\ \A i \in 1..18 : InUnit(Scores(heap, last.p1)[i])
    /\ last.ret = OneR
    /\ \E q \in Profiles(heap) :
          RLt(_calculate_profile_similarity(heap, last.p1, q), OneR)

(***************************************************************************)
(* Inference as functions of its arguments: callers apply                  *)
(* _infer_vark_from_learning_style, _infer_mbti_from_personality and       *)
(* get_profiles_for_conversation to the arguments below.                   *)
(***************************************************************************)
StyleScores == {R(0, 1), R(1, 4), R(1, 1), R(3, 2)}

InferenceStyles ==
    {LearningStyle(v, a, r, k) : v \in StyleScores, a \in StyleScores,
                                 r \in StyleScores, k \in StyleScores}

AxisScores == {R(-1, 2), R(2, 5), R(1, 2), R(3, 2)}

InferencePersonalities ==
    {PersonalityProfile(e, n, t, j) : e \in AxisScores, n \in AxisScores,
                                      t \in AxisScores, j \in AxisScores}

\* The key sets of the feature mappings: both spellings of an axis, prefixed
\* and unprefixed keys of different axes, and a key that names no axis.
FeatureKeySets ==
    { {"ls_visual", "visual"}, {"ls_reading", "kinesthetic"},
      {"pers_extraversion", "extraversion"},
      {"pers_judging", "thinking", "intuition"},
      {"auditory", "pers_intuition"}, {"confidence"} }

FeatureValues == {R(1, 10), R(1, 2), R(9, 10), R(3, 2)}

InferenceFeatures ==
    {NoFeatures, MainFeatures}
    \cup UNION {[K -> FeatureValues] : K \in FeatureKeySets}

infer_vark_from_learning_style(ls) ==
    /\ last' = [op |-> "_infer_vark_from_learning_style", ls |-> ls,
                ret |-> _infer_vark_from_learning_style(ls)]
    /\ UNCHANGED <<heap, profile_cache, now>>

infer_mbti_from_personality(pers) ==
    /\ last' = [op |-> "_infer_mbti_from_personality", pers |-> pers,
                ret |-> _infer_mbti_from_personality(pers)]
    /\ UNCHANGED <<heap, profile_cache, now>>

NextInference ==
    \/ \E ls \in InferenceStyles : infer_vark_from_learning_style(ls)
    \/ \E pers \in InferencePersonalities : infer_mbti_from_personality(pers)
    \/ \E f \in InferenceFeatures : get_profiles_for_conversation(f)

SpecInference == Init /\ [][NextInference]_vars

(***************************************************************************)
(* Properties of inference.                                                *)
(***************************************************************************)
\* The axes of a feature mapping: prefixed key, unprefixed alias, default,
\* and the key of the axis in the combined scores.
FeatureAxes ==
    << <<"ls_visual", "visual", R(1, 4), "VARK_V">>,
       <<"ls_auditory", "auditory", R(1, 4), "VARK_A">>,
       <<"ls_reading", "reading", R(1, 4), "VARK_R">>,
       <<"ls_kinesthetic", "kinesthetic", R(1, 4), "VARK_K">>,
       <<"pers_extraversion", "extraversion", R(1, 2), "MBTI_E">>,
       <<"pers_intuition", "intuition", R(1, 2), "MBTI_N">>,
       <<"pers_thinking", "thinking", R(1, 2), "MBTI_T">>,
       <<"pers_judging", "judging", R(1, 2), "MBTI_J">> >>

\* The value of axis i of the mapping f: prefixed key, else alias, else default.
Resolved(f, i) ==
    IF FeatureAxes[i][1] \in DOMAIN f THEN f[FeatureAxes[i][1]]
    ELSE IF FeatureAxes[i][2] \in DOMAIN f THEN f[FeatureAxes[i][2]]
    ELSE FeatureAxes[i][3]

\* label names the first of the largest of the four scores <<V, A, R, K>>.
IsFirstLargest(label, scores) ==
    \E k \in 1..4 :
        /\ label = <<"V", "A", "R", "K">>[k]
        /\ \A j \in 1..4 : RLe(scores[j], scores[k])
        /\ \A j \in 1..(k - 1) : RLt(scores[j], scores[k])

\* C14: for learning-style scores in [0,1] the VARK label is the axis with
\* the highest score, the first such axis in the order V, A, R, K on ties;
\* four equal scores give V.
C14_VarkIsFirstArgmax ==
    (last.op = "_infer_vark_from_learning_style"
     /\ InUnit(last.ls.visual) /\ InUnit(last.ls.auditory)
     /\ InUnit(last.ls.reading) /\ InUnit(last.ls.kinesthetic))
        => /\ IsFirstLargest(last.ret[1],
                             <<last.ls.visual, last.ls.auditory,
                               last.ls.reading, last.ls.kinesthetic>>)
           /\ (last.ls.visual = last.ls.auditory /\ last.ls.auditory = last.ls.reading
               /\ last.ls.reading = last.ls.kinesthetic) => last.ret[1] = "V"

\* A tie between auditory and kinesthetic above the other two: label A.
C14_Witness ==
    /\ last.op = "_infer_vark_from_learning_style"
    /\ last.ls.auditory = R(1, 1) /\ last.ls.kinesthetic = R(1, 1)
    /\ last.ls.visual = R(1, 4) /\ last.ls.reading = R(0, 1)
    /\ last.ret[1] = "A"

\* The letter of an axis: positive when the clamped value is >= 0.5.
Letter(x, positive, negative) ==
    IF RLe(R(1, 2), Clamp01(x)) THEN positive ELSE negative

\* C15: the MBTI label is four letters, the i-th decided by the i-th axis
\* alone: E, N, T, J when the clamped axis is >= 0.5 (0.5 included) and
\* I, S, F, P otherwise.
C15_MbtiLettersByThreshold ==
    last.op = "_infer_mbti_from_personality" =>
        last.ret[1] = Letter(last.pers.extraversion, "E", "I")
                      \o Letter(last.pers.intuition, "N", "S")
                      \o Letter(last.pers.thinking, "T", "F")
                      \o Letter(last.pers.judging, "J", "P")

\* Extraversion exactly 0.5 gives E, next to axes below and above.
C15_Witness ==
    /\ last.op = "_infer_mbti_from_personality"
    /\ last.pers.extraversion = R(1, 2)
    /\ last.pers.intuition = R(2, 5)
    /\ last.pers.thinking = R(-1, 2)
    /\ last.pers.judging = R(3, 2)
    /\ last.ret[1] = "ESFJ"

\* The eight per-letter scores of a feature mapping: x and 1 - x for each
\* clamped personality axis x.
LetterScores(f) ==
    UNION {{Clamp01(Resolved(f, i)), RSub(OneR, Clamp01(Resolved(f, i)))} :
              i \in 5..8}

\* C16: the MBTI confidence of get_profiles_for_conversation is the largest of
\* the eight per-letter scores of the clamped axes; for the features of the
\* manual test the result is VARK label V, MBTI label INTJ, confidence 0.8.
C16_ConfIsMaxLetterScore ==
    last.op = "get_profiles_for_conversation" =>
        /\ last.ret.MBTI.conf \in LetterScores(last.features)
        /\ \A x \in LetterScores(last.features) : RLe(x, last.ret.MBTI.conf)
        /\ last.features = MainFeatures =>
              /\ last.ret.VARK.label = "V"
              /\ last.ret.MBTI.label = "INTJ"
              /\ last.ret.MBTI.conf = R(4, 5)

\* The manual test: confidence 0.8, which is not the mean 0.6625 of the larger
\* letter score of each axis (0.7, 0.8, 0.6, 0.55).
C16_Witness ==
    /\ last.op = "get_profiles_for_conversation"
    /\ last.features = MainFeatures
    /\ last.ret.MBTI.conf = R(4, 5)
    /\ last.ret.MBTI.conf # R(53, 80)

\* The keys that name an axis, in either spelling.
AxisKeys ==
    UNION {{FeatureAxes[i][1], FeatureAxes[i][2]} : i \in 1..Len(FeatureAxes)}

\* C17: each axis of get_profiles_for_conversation is the value of the
\* prefixed key if present, else of the unprefixed alias if present, else
\* 0.25 (learning style) or 0.5 (personality); a mapping with none of these
\* keys gives proba 0.25 on all four axes, VARK label V, MBTI label ENTJ and
\* confidence 0.5.
C17_AxisResolution ==
    last.op = "get_profiles_for_conversation" =>
        /\ \A i \in 1..Len(FeatureAxes) :
              last.ret.scores[FeatureAxes[i][4]] = Clamp01(Resolved(last.features, i))
        /\ (DOMAIN last.features \cap AxisKeys = {}) =>
              /\ last.ret.VARK.proba = [V |-> R(1, 4), A |-> R(1, 4),
                                        R |-> R(1, 4), K |-> R(1, 4)]
              /\ last.ret.VARK.label = "V"
              /\ last.ret.MBTI.label = "ENTJ"
              /\ last.ret.MBTI.conf = R(1, 2)

\* Both spellings of the visual axis with different values: the prefixed
\* one is used, the other axes take their defaults.
C17_Witness ==
    /\ last.op = "get_profiles_for_conversation"
    /\ DOMAIN last.features = {"ls_visual", "visual"}
    /\ last.features["ls_visual"] = R(1, 10)
    /\ last.features["visual"] = R(9, 10)
    /\ last.ret.VARK.proba.V = R(1, 10)
    /\ last.ret.VARK.proba.A = R(1, 4)
    /\ last.ret.MBTI.label = "ENTJ"

(***************************************************************************)
(* PromptTransformer.generate_ui_recommendations: the rules that map a     *)
(* profile to UI recommendations (src/src/models/prompt_transformer.py).   *)
(***************************************************************************)
\* A theme rule that looks at extraversion before the visual score.
_get_theme_preference_dark_first(h, p) ==
    IF RLt(h[h[p].personality].extraversion, R(2, 5)) THEN "dark"
    ELSE IF RLt(R(1, 2), h[h[p].learning_style].visual) THEN "high_contrast"
    ELSE "light"

_get_theme_preference(h, p) ==
    IF RLt(R(1, 2), h[h[p].learning_style].visual) THEN "high_contrast"
    ELSE IF RLt(h[h[p].personality].extraversion, R(2, 5)) THEN "dark"
    ELSE "light"

\* suggestions += tags, when the condition of the rule holds.
AddIf(condition, tags) == IF condition THEN tags ELSE << >>

\* Layout rules of which the kinesthetic one applies only when the visual one
\* did not (an elif).
_get_layout_suggestions_exclusive(h, p) ==
    LET visual == RLt(R(1, 2), h[h[p].learning_style].visual)
    IN  AddIf(visual, <<"visual_hierarchy", "image_heavy", "infographics">>)
        \o AddIf(~visual /\ RLt(R(1, 2), h[h[p].learning_style].kinesthetic),
                 <<"interactive_elements", "drag_drop", "touch_friendly">>)
        \o AddIf(RLt(h[h[p].cognitive].attention_span, R(2, 5)),
                 <<"minimal_design", "focused_content", "progress_indicators">>)
        \o AddIf(RLt(R(3, 5), h[h[p].personality].judging),
                 <<"structured_layout", "clear_sections", "navigation_breadcrumbs">>)

_get_layout_suggestions(h, p) ==
    AddIf(RLt(R(1, 2), h[h[p].learning_style].visual),
          <<"visual_hierarchy", "image_heavy", "infographics">>)
    \o AddIf(RLt(R(1, 2), h[h[p].learning_style].kinesthetic),
             <<"interactive_elements", "drag_drop", "touch_friendly">>)
    \o AddIf(RLt(h[h[p].cognitive].attention_span, R(2, 5)),
             <<"minimal_design", "focused_content", "progress_indicators">>)
    \o AddIf(RLt(R(3, 5), h[h[p].personality].judging),
             <<"structured_layout", "clear_sections", "navigation_breadcrumbs">>)

_get_interaction_patterns(h, p) ==
    AddIf(RLt(R(3, 5), h[h[p].personality].extraversion),
          <<"social_features", "collaboration_tools", "sharing_options">>)
    \o AddIf(RLt(R(3, 5), h[h[p].behavioral].help_seeking),
             <<"help_tooltips", "contextual_assistance", "tutorial_mode">>)
    \o AddIf(RLt(h[h[p].behavioral].self_regulation, R(2, 5)),
             <<"guided_workflow", "automatic_save", "reminder_system">>)

\* Colour rules chained by elif: at most one override is applied.
_get_color_recommendations_chained(h, p) ==
    LET accent == RLt(R(3, 5), h[h[p].personality].extraversion)
        secondary == ~accent /\ RLt(R(3, 5), h[h[p].cognitive].creative_thinking)
        primary == ~accent /\ ~secondary
                   /\ RLt(h[h[p].behavioral].engagement_level, R(2, 5))
    IN  [primary |-> IF primary THEN "#27ae60" ELSE "#3498db",
         secondary |-> IF secondary THEN "#9b59b6" ELSE "#2ecc71",
         accent |-> IF accent THEN "#f39c12" ELSE "#e74c3c",
         background |-> "#ffffff",
         text |-> "#2c3e50"]

_get_color_recommendations(h, p) ==
    [primary |-> IF RLt(h[h[p].behavioral].engagement_level, R(2, 5))
                 THEN "#27ae60" ELSE "#3498db",
     secondary |-> IF RLt(R(3, 5), h[h[p].cognitive].creative_thinking)
                   THEN "#9b59b6" ELSE "#2ecc71",
     accent |-> IF RLt(R(3, 5), h[h[p].personality].extraversion)
                THEN "#f39c12" ELSE "#e74c3c",
     background |-> "#ffffff",
     text |-> "#2c3e50"]

\* Navigation rules that look at judging before the attention span.
_get_navigation_style_judging_first(h, p) ==
    IF RLt(h[h[p].personality].judging, R(2, 5)) THEN "free_form"
    ELSE IF RLt(R(3, 5), h[h[p].personality].judging) THEN "hierarchical"
    ELSE IF RLt(h[h[p].cognitive].attention_span, R(2, 5)) THEN "linear"
    ELSE "standard"

_get_navigation_style(h, p) ==
    IF RLt(h[h[p].cognitive].attention_span, R(2, 5)) THEN "linear"
    ELSE IF RLt(h[h[p].personality].judging, R(2, 5)) THEN "free_form"
    ELSE IF RLt(R(3, 5), h[h[p].personality].judging) THEN "hierarchical"
    ELSE "standard"

\* The dict generate_ui_recommendations(profile) returns.
UiRecommendations(h, p) ==
    [theme_preference |-> _get_theme_preference(h, p),
     layout_suggestions |-> _get_layout_suggestions(h, p),
     interaction_patterns |-> _get_interaction_patterns(h, p),
     color_psychology |-> _get_color_recommendations(h, p),
     navigation_style |-> _get_navigation_style(h, p)]

generate_ui_recommendations(profile) ==
    /\ last' = [op |-> "generate_ui_recommendations", profile |-> profile,
                ret |-> UiRecommendations(heap, profile)]
    /\ UNCHANGED <<heap, profile_cache, now>>

\* The profiles handed to the transformer: scores on, below and above the
\* thresholds 0.4, 0.5 and 0.6 of the rules.
TransformerArgs ==
    {Args(LearningStyle(v, R(1, 4), R(1, 4), k),
          PersonalityProfile(e, R(1, 2), R(1, 2), j),
          CognitiveProfile(R(1, 2), R(1, 2), R(1, 2), ct, at),
          BehavioralProfile(el, R(1, 2), hs, R(1, 2), sr),
          << >>, << >>, << >>, DefaultConfidenceLevel) :
        v \in {R(1, 2), R(3, 5)}, k \in {R(1, 2), R(3, 5)},
        e \in {R(3, 10), R(2, 5), R(3, 5), R(7, 10)},
        j \in {R(3, 10), R(2, 5), R(3, 5), R(7, 10)},
        ct \in {R(3, 5), R(7, 10)}, at \in {R(3, 10), R(2, 5)},
        el \in {R(3, 10), R(2, 5)}, hs \in {R(3, 5), R(7, 10)},
        sr \in {R(3, 10), R(2, 5)}}

\* One profile, constructed by the caller of the transformer.
InitTransformer ==
    /\ \E a \in TransformerArgs :
          heap = Construct(<< >>, "temp", a, 0, [op |-> "LearnerProfile"])
    /\ profile_cache = [id \in LearnerIds |-> None]
    /\ now = 0
    /\ last = [op |-> "init"]

NextTransformer ==
    \E p \in Profiles(heap) : generate_ui_recommendations(p)

SpecTransformer == InitTransformer /\ [][NextTransformer]_vars

(***************************************************************************)
(* Properties of the recommendation rules.                                 *)
(***************************************************************************)
\* The trait objects of the profile the last call was given.
LastStyle == heap[heap[last.profile].learning_style]
LastPersonality == heap[heap[last.profile].personality]
LastCognitive == heap[heap[last.profile].cognitive]
LastBehavioral == heap[heap[last.profile].behavioral]

\* C18: theme_preference is "high_contrast" whenever visual > 0.5, whatever
\* the other fields; otherwise "dark" when extraversion < 0.4; otherwise
\* "light"; visual = 0.5 and extraversion = 0.4 trigger no rule.
C18_ThemeByFirstMatch ==
    last.op = "generate_ui_recommendations" =>
        LET theme == last.ret.theme_preference
        IN  /\ RLt(R(1, 2), LastStyle.visual) => theme = "high_contrast"
            /\ (~RLt(R(1, 2), LastStyle.visual)
                /\ RLt(LastPersonality.extraversion, R(2, 5))) => theme = "dark"
            /\ (~RLt(R(1, 2), LastStyle.visual)
                /\ ~RLt(LastPersonality.extraversion, R(2, 5))) => theme = "light"
            /\ (LastStyle.visual = R(1, 2) /\ LastPersonality.extraversion = R(2, 5))
                  => theme = "light"

\* A visual score 0.6 with extraversion 0.3: the first rule wins.
C18_Witness ==
    /\ last.op = "generate_ui_recommendations"
    /\ LastStyle.visual = R(3, 5)
    /\ LastPersonality.extraversion = R(3, 10)
    /\ last.ret.theme_preference = "high_contrast"

\* C19: navigation_style is "linear" when attention_span < 0.4, whatever
\* judging is; otherwise "free_form" when judging < 0.4; otherwise
\* "hierarchical" when judging > 0.6; otherwise "standard"; it is always one
\* of these four values.
C19_NavigationByFirstMatch ==
    last.op = "generate_ui_recommendations" =>
        LET nav == last.ret.navigation_style
            short == RLt(LastCognitive.attention_span, R(2, 5))
            judging == LastPersonality.judging
        IN  /\ nav \in {"linear", "free_form", "hierarchical", "standard"}
            /\ short => nav = "linear"
            /\ (~short /\ RLt(judging, R(2, 5))) => nav = "free_form"
            /\ (~short /\ ~RLt(judging, R(2, 5)) /\ RLt(R(3, 5), judging))
                  => nav = "hierarchical"
            /\ (~short /\ ~RLt(judging, R(2, 5)) /\ ~RLt(R(3, 5), judging))
                  => nav = "standard"

\* A short attention span with judging 0.7: "linear", not "hierarchical".
C19_Witness ==
    /\ last.op = "generate_ui_recommendations"
    /\ LastCognitive.attention_span = R(3, 10)
    /\ LastPersonality.judging = R(7, 10)
    /\ last.ret.navigation_style = "linear"

\* The tags of a rule if its condition holds, nothing otherwise.
Block(condition, tags) == IF condition THEN tags ELSE << >>

NoRepeats(seq) == \A i, j \in 1..Len(seq) : i # j => seq[i] # seq[j]

\* C20: layout_suggestions and interaction_patterns are the blocks of three
\* tags of the rules whose own condition holds, in the order of the rules
\* (layout: visual > 0.5, kinesthetic > 0.5, attention_span < 0.4,
\* judging > 0.6; interaction: extraversion > 0.6, help_seeking > 0.6,
\* self_regulation < 0.4); they hold 0, 3, 6, 9 or 12 and 0, 3, 6 or 9
\* distinct tags and are empty when no condition holds.
C20_AdditiveTagLists ==
    last.op = "generate_ui_recommendations" =>
        LET layout == last.ret.layout_suggestions
            patterns == last.ret.interaction_patterns
        IN  /\ layout =
                  Block(RLt(R(1, 2), LastStyle.visual),
                        <<"visual_hierarchy", "image_heavy", "infographics">>)
                  \o Block(RLt(R(1, 2), LastStyle.kinesthetic),
                           <<"interactive_elements", "drag_drop", "touch_friendly">>)
                  \o Block(RLt(LastCognitive.attention_span, R(2, 5)),
                           <<"minimal_design", "focused_content",
                             "progress_indicators">>)
                  \o Block(RLt(R(3, 5), LastPersonality.judging),
                           <<"structured_layout", "clear_sections",
                             "navigation_breadcrumbs">>)
            /\ patterns =
                  Block(RLt(R(3, 5), LastPersonality.extraversion),
                        <<"social_features", "collaboration_tools",
                          "sharing_options">>)
                  \o Block(RLt(R(3, 5), LastBehavioral.help_seeking),
                           <<"help_tooltips", "contextual_assistance",
                             "tutorial_mode">>)
                  \o Block(RLt(LastBehavioral.self_regulation, R(2, 5)),
                           <<"guided_workflow", "automatic_save",
                             "reminder_system">>)
            /\ Len(layout) \in {0, 3, 6, 9, 12}
            /\ Len(patterns) \in {0, 3, 6, 9}
            /\ NoRepeats(layout) /\ NoRepeats(patterns)

\* Visual and kinesthetic rules both hold, the other two layout rules do
\* not; the first and the last interaction rules hold, the middle one not.
C20_Witness ==
    /\ last.op = "generate_ui_recommendations"
    /\ last.ret.layout_suggestions =
          <<"visual_hierarchy", "image_heavy", "infographics",
            "interactive_elements", "drag_drop", "touch_friendly">>
    /\ last.ret.interaction_patterns =
          <<"social_features", "collaboration_tools", "sharing_options",
            "guided_workflow", "automatic_save", "reminder_system">>

\* C21: color_psychology has exactly the keys primary, secondary, accent,
\* background and text; accent is overridden iff extraversion > 0.6,
\* secondary iff creative_thinking > 0.6, primary iff engagement_level < 0.4,
\* each whatever the other two do; background and text keep the base values.
C21_ColorOverridesIndependent ==
    last.op = "generate_ui_recommendations" =>
        LET colors == last.ret.color_psychology
        IN  /\ DOMAIN colors = {"primary", "secondary", "accent", "background", "text"}
            /\ colors.accent = (IF RLt(R(3, 5), LastPersonality.extraversion)
                                THEN "#f39c12" ELSE "#e74c3c")
            /\ colors.secondary = (IF RLt(R(3, 5), LastCognitive.creative_thinking)
                                   THEN "#9b59b6" ELSE "#2ecc71")
            /\ colors.primary = (IF RLt(LastBehavioral.engagement_level, R(2, 5))
                                 THEN "#27ae60" ELSE "#3498db")
            /\ colors.background = "#ffffff"
            /\ colors.text = "#2c3e50"

\* All three overrides at once.
C21_Witness ==
    /\ last.op = "generate_ui_recommendations"
    /\ LastPersonality.extraversion = R(7, 10)
    /\ LastCognitive.creative_thinking = R(7, 10)
    /\ LastBehavioral.engagement_level = R(3, 10)
    /\ last.ret.color_psychology.accent = "#f39c12"
    /\ last.ret.color_psychology.secondary = "#9b59b6"
    /\ last.ret.color_psychology.primary = "#27ae60"

(***************************************************************************)
(* PromptTransformer.profile_to_prompt: the text of the prompt.            *)
(***************************************************************************)
\* sep.join(seq)
RECURSIVE JoinFrom(_, _, _)
JoinFrom(seq, sep, i) ==
    IF i > Len(seq) THEN ""
    ELSE (IF i > 1 THEN sep ELSE "") \o seq[i] \o JoinFrom(seq, sep, i + 1)

Join(seq, sep) == JoinFrom(seq, sep, 1)

\* self.vark_descriptions
vark_descriptions ==
    [visual |-> "visuel", auditory |-> "auditif", reading |-> "lecture/écriture",
     kinesthetic |-> "kinesthésique"]

\* sorted(styles.items(), key=lambda x: x[1], reverse=True): the four
\* (style, score) pairs, the highest score first, equal scores in the order
\* visual, auditory, reading, kinesthetic (the sort is stable).
SortedStyles(learning_style) ==
    SortFrom(<< <<"visual", learning_style.visual>>,
                <<"auditory", learning_style.auditory>>,
                <<"reading", learning_style.reading>>,
                <<"kinesthetic", learning_style.kinesthetic>> >>, 1, << >>)

\* A dominant style taken from the end of the sorted list.
DominantStyle_last(learning_style) == SortedStyles(learning_style)[4][1]

\* dominant_style = sorted_styles[0][0]
DominantStyle(learning_style) == SortedStyles(learning_style)[1][1]

\* [s for s, score in sorted_styles[1:] if score > 0.2]
RECURSIVE SecondaryFrom(_, _)
SecondaryFrom(sorted_styles, i) ==
    IF i > Len(sorted_styles) THEN << >>
    ELSE (IF RLt(R(1, 5), sorted_styles[i][2])
          THEN <<sorted_styles[i][1]>> ELSE << >>)
         \o SecondaryFrom(sorted_styles, i + 1)

_get_dominant_learning_style(learning_style) ==
    LET secondary_styles == SecondaryFrom(SortedStyles(learning_style), 2)
        secondary_desc ==
            [i \in 1..Len(secondary_styles) |-> vark_descriptions[secondary_styles[i]]]
    IN  "apprenant principalement "
        \o vark_descriptions[DominantStyle(learning_style)]
        \o (IF secondary_styles # << >>
            THEN " avec des tendances " \o Join(secondary_desc, " et ")
            ELSE "")

\* if x > high: append(above) elif x < low: append(below)
HighLow(x, high, above, low, below) ==
    IF RLt(high, x) THEN <<above>> ELSE IF RLt(x, low) THEN <<below>> ELSE << >>

_get_personality_traits(personality) ==
    LET traits ==
            HighLow(personality.extraversion, R(3, 5), "extraverti",
                    R(2, 5), "introverti")
            \o HighLow(personality.intuition, R(3, 5), "intuitif", R(2, 5), "concret")
            \o HighLow(personality.thinking, R(3, 5), "analytique",
                       R(2, 5), "empathique")
            \o HighLow(personality.judging, R(3, 5), "organisé", R(2, 5), "flexible")
    IN  IF traits # << >> THEN "de personnalité " \o Join(traits, ", ")
        ELSE "de personnalité équilibrée"

_get_cognitive_characteristics(cognitive) ==
    LET characteristics ==
            HighLow(cognitive.processing_speed, R(7, 10), "traitement rapide",
                    R(3, 10), "traitement réfléchi")
            \o HighLow(cognitive.working_memory, R(7, 10), "bonne mémoire de travail",
                       R(3, 10), "mémoire de travail limitée")
            \o AddIf(RLt(R(7, 10), cognitive.analytical_thinking),
                     <<"forte capacité analytique">>)
            \o AddIf(RLt(R(7, 10), cognitive.creative_thinking),
                     <<"pensée créative développée">>)
            \o HighLow(cognitive.attention_span, R(7, 10),
                       "bonne capacité d'attention", R(3, 10), "attention limitée")
    IN  IF characteristics # << >> THEN "avec " \o Join(characteristics, ", ")
        ELSE "avec des capacités cognitives moyennes"

_get_behavioral_patterns(behavioral) ==
    LET patterns ==
            HighLow(behavioral.engagement_level, R(7, 10), "très engagé",
                    R(3, 10), "engagement faible")
            \o HighLow(behavioral.persistence, R(7, 10), "persistant",
                       R(3, 10), "abandonne facilement")
            \o HighLow(behavioral.help_seeking, R(7, 10), "demande souvent de l'aide",
                       R(3, 10), "autonome")
            \o HighLow(behavioral.collaboration_preference, R(7, 10),
                       "préfère le travail collaboratif",
                       R(3, 10), "préfère le travail individuel")
            \o HighLow(behavioral.self_regulation, R(7, 10), "bonne autorégulation",
                       R(3, 10), "autorégulation faible")
    IN  IF patterns # << >> THEN "Il est " \o Join(patterns, ", ")
        ELSE "Il présente des comportements d'apprentissage équilibrés"

\* str.lower() on the strengths and difficulties callers pass.
LowerText(s) ==
    CASE s = "Logique" -> "logique"
      [] s = "Lecture" -> "lecture"
      [] OTHER -> s

\* ', '.join(items).lower(): the separator has no upper-case letter, so the
\* items are lowered one by one.
JoinLower(items) == Join([i \in 1..Len(items) |-> LowerText(items[i])], ", ")

_format_strengths(strengths) ==
    IF strengths # << >> THEN "Ses forces incluent : " \o JoinLower(strengths)
    ELSE ""

_format_difficulties(difficulties) ==
    IF difficulties # << >>
    THEN "Ses difficultés incluent : " \o JoinLower(difficulties)
    ELSE ""

SimpleDirective ==
    " Privilégier une interface simple et rassurante avec des guides étape par étape."

AdvancedDirective ==
    " Permettre une interface avancée avec des options de personnalisation étendues."

ClosingSentence ==
    " La configuration doit inclure le thème, la mise en page, la palette de couleurs "
    \o "et les éléments interactifs recommandés."

\* Confidence gates that include their boundaries 0.3 and 0.7.
ConfidenceDirective_inclusive(confidence) ==
    IF RLe(confidence, R(3, 10)) THEN SimpleDirective
    ELSE IF RLe(R(7, 10), confidence) THEN AdvancedDirective
    ELSE ""

\* if confidence < 0.3: ... elif confidence > 0.7: ...
ConfidenceDirective(confidence) ==
    IF RLt(confidence, R(3, 10)) THEN SimpleDirective
    ELSE IF RLt(R(7, 10), confidence) THEN AdvancedDirective
    ELSE ""

\* base_prompt up to and including the context sentence.
PromptHead(learning_style, personality, cognitive, behavioral, strengths, difficulties) ==
    LET context_parts == AddIf(strengths # "", <<strengths>>)
                         \o AddIf(difficulties # "", <<difficulties>>)
    IN  "Générer une configuration UI/UX personnalisée pour un "
        \o learning_style \o " " \o personality \o " " \o cognitive \o ". "
        \o behavioral \o "."
        \o (IF context_parts # << >> THEN " " \o Join(context_parts, " ") \o "."
            ELSE "")

_build_comprehensive_prompt(learning_style, personality, cognitive, behavioral, strengths, difficulties, confidence) ==
    PromptHead(learning_style, personality, cognitive, behavioral, strengths,
               difficulties)
    \o ConfidenceDirective(confidence)
    \o ClosingSentence

\* The text profile_to_prompt(profile) returns for the profile at address p.
PromptText(h, p) ==
    _build_comprehensive_prompt(
        _get_dominant_learning_style(h[h[p].learning_style]),
        _get_personality_traits(h[h[p].personality]),
        _get_cognitive_characteristics(h[h[p].cognitive]),
        _get_behavioral_patterns(h[h[p].behavioral]),
        _format_strengths(h[h[p].strengths].items),
        _format_difficulties(h[h[p].difficulty_areas].items),
        h[p].confidence_level)

profile_to_prompt(profile) ==
    /\ last' = [op |-> "profile_to_prompt", profile |-> profile,
                ret |-> PromptText(heap, profile)]
    /\ UNCHANGED <<heap, profile_cache, now>>

\* The profiles whose prompt is asked for: confidence on, below and above the
\* gates 0.3 and 0.7, with and without strengths and difficulties.
PromptArgs ==
    {Args(ls, PersonalityProfile(e, R(1, 2), R(7, 10), R(1, 2)),
          CognitiveProfile(ps, R(1, 2), R(1, 2), R(4, 5), R(1, 2)),
          BehavioralProfile(el, R(1, 2), R(1, 5), R(1, 2), R(1, 2)),
          diff, str, << >>, conf) :
        ls \in {DefaultLearningStyle,
                LearningStyle(R(7, 10), R(1, 10), R(3, 20), R(1, 20))},
        e \in {R(3, 10), R(1, 2), R(7, 10)},
        ps \in {R(1, 5), R(1, 2)}, el \in {R(1, 2), R(4, 5)},
        diff \in {<< >>, <<"Lecture">>}, str \in {<< >>, <<"Logique", "calcul">>},
        conf \in {R(1, 5), R(3, 10), R(1, 2), R(7, 10), R(4, 5)}}

\* One profile, constructed by the caller of the transformer.
InitPrompt ==
    /\ \E a \in PromptArgs :
          heap = Construct(<< >>, "temp", a, 0, [op |-> "LearnerProfile"])
    /\ profile_cache = [id \in LearnerIds |-> None]
    /\ now = 0
    /\ last = [op |-> "init"]

NextPrompt ==
    \/ \E p \in Profiles(heap) : profile_to_prompt(p)
    \/ \E p \in Profiles(heap) : generate_ui_recommendations(p)

SpecPrompt == InitPrompt /\ [][NextPrompt]_vars

\* C22: profile_to_prompt appends the simple, step-guided directive iff
\* confidence_level < 0.3, the advanced directive iff confidence_level > 0.7,
\* and neither for 0.3 <= confidence_level <= 0.7; never both: between the
\* sentences about the profile and the closing sentence the prompt holds
\* exactly that directive, or nothing.
C22_ConfidenceGatesDirective ==
    last.op = "profile_to_prompt" =>
        LET p == last.profile
            conf == heap[p].confidence_level
            head == PromptHead(
                        _get_dominant_learning_style(heap[heap[p].learning_style]),
                        _get_personality_traits(heap[heap[p].personality]),
                        _get_cognitive_characteristics(heap[heap[p].cognitive]),
                        _get_behavioral_patterns(heap[heap[p].behavioral]),
                        _format_strengths(heap[heap[p].strengths].items),
                        _format_difficulties(heap[heap[p].difficulty_areas].items))
        IN  /\ RLt(conf, R(3, 10)) <=>
                  last.ret = head \o SimpleDirective \o ClosingSentence
            /\ RLt(R(7, 10), conf) <=>
                  last.ret = head \o AdvancedDirective \o ClosingSentence
            /\ (RLe(R(3, 10), conf) /\ RLe(conf, R(7, 10))) <=>
                  last.ret = head \o ClosingSentence

\* A prompt for confidence exactly 0.7, with strengths and difficulties: no
\* directive.
C22_Witness ==
    /\ last.op = "profile_to_prompt"
    /\ heap[last.profile].confidence_level = R(7, 10)
    /\ heap[heap[last.profile].strengths].items # << >>
    /\ heap[heap[last.profile].difficulty_areas].items # << >>
    /\ last.ret =
          "Générer une configuration UI/UX personnalisée pour un apprenant "
          \o "principalement visuel de personnalité introverti, analytique avec "
          \o "traitement réfléchi, pensée créative développée. Il est très engagé, "
          \o "autonome. Ses forces incluent : logique, calcul Ses difficultés "
          \o "incluent : lecture."
          \o ClosingSentence

(***************************************************************************)
(* EnhancedUIGenerator.generate_ui_config                                  *)
(* (src/src/models/enhanced_ui_generator.py).                              *)
(*                                                                         *)
(* JSON values carry their Python type: a str, a list of str, a list that  *)
(* holds objects, a dict (a function from keys to values), a bool, None.   *)
(* A list made by list(set(...)) holds its items in an order the           *)
(* interpreter chooses; it is kept as the set of its items.  A call either *)
(* returns a value or raises.                                              *)
(***************************************************************************)
Str(s) == [t |-> "str", v |-> s]
List(items) == [t |-> "list", v |-> items]
ListOfSet(items) == [t |-> "list_of_set", v |-> items]
ListOfObjects == [t |-> "list_of_objects"]
Dict(d) == [t |-> "dict", v |-> d]
Bool(b) == [t |-> "bool", v |-> b]
Null == [t |-> "null"]

EmptyDict == [k \in {} |-> Null]

Returns(value) == [raised |-> FALSE, value |-> value]
Raises(error) == [raised |-> TRUE, error |-> error]

\* d[k] = v
Put(d, k, v) == [x \in DOMAIN d \cup {k} |-> IF x = k THEN v ELSE d[x]]

\* d.update(e)
Update(d, e) == [x \in DOMAIN d \cup DOMAIN e |-> IF x \in DOMAIN e THEN e[x] ELSE d[x]]

\* d.setdefault(k, v), as the dict it leaves
SetDefault(d, k, v) == IF k \in DOMAIN d THEN d ELSE Put(d, k, v)

BasePalette ==
    [primary |-> Str("#3498db"), secondary |-> Str("#2ecc71"),
     accent |-> Str("#e74c3c"), background |-> Str("#ffffff"),
     text |-> Str("#2c3e50")]

BaseTypography ==
    [font_family |-> Str("Arial, sans-serif"),
     font_sizes |-> Dict([h1 |-> Str("2rem"), h2 |-> Str("1.5rem"),
                          body |-> Str("1rem")])]

\* The words _text_to_config looks for, by the rule they trigger.
DarkWords == {"dark", "sombre"}
ContrastWords == {"high contrast", "contraste"}
InteractiveWords == {"interactive", "interactif", "drag", "touch"}
HelpWords == {"help", "aide", "tooltip"}
LinearWords == {"linear", "linéaire", "étape"}
HierarchicalWords == {"hierarchical", "hiérarchique"}

\* _text_to_config(text), for a text in which the words of the set found
\* occur (any(w in t for w in [...]) is a test on found).
_text_to_config(found) ==
    LET dark == found \cap DarkWords # {}
        theme == IF found \cap ContrastWords # {} THEN "high_contrast"
                 ELSE IF dark THEN "dark" ELSE "light"
        colors == IF dark
                  THEN [BasePalette EXCEPT !.background = Str("#2c3e50"),
                                           !.text = Str("#ecf0f1")]
                  ELSE BasePalette
        interactions ==
            AddIf(found \cap InteractiveWords # {}, <<"drag_drop", "touch_friendly">>)
            \o AddIf(found \cap HelpWords # {},
                     <<"help_tooltips", "contextual_assistance">>)
        navigation == IF found \cap LinearWords # {} THEN "linear"
                      ELSE IF found \cap HierarchicalWords # {} THEN "hierarchical"
                      ELSE "horizontal"
    IN  [theme |-> Str(theme),
         layout |-> Dict([type |-> Str("standard"),
                          sections |-> List(<<"header", "content", "footer">>)]),
         colors |-> Dict(colors),
         typography |-> Dict(BaseTypography),
         interactions |-> List(interactions),
         navigation |-> Dict([type |-> Str(navigation), position |-> Str("top")])]


\* The bundle of generate_ui_recommendations as the JSON value handed on.
StrDict(r) == [k \in DOMAIN r |-> Str(r[k])]

RecommendationsDict(r) ==
    [theme_preference |-> Str(r.theme_preference),
     layout_suggestions |-> List(r.layout_suggestions),
     interaction_patterns |-> List(r.interaction_patterns),
     color_psychology |-> Dict(StrDict(r.color_psychology)),
     navigation_style |-> Str(r.navigation_style)]

\* learner_recommendations: None, or a dict.
NoRecommendations == [given |-> FALSE]
Recommendations(d) == [given |-> TRUE, dict |-> d]

\* bool(recommendations)
Truthy(recommendations) == recommendations.given /\ DOMAIN recommendations.dict # {}

IsList(x) == x.t \in {"list", "list_of_set", "list_of_objects"}

Items(x) == IF x.t = "list" THEN {x.v[i] : i \in 1..Len(x.v)} ELSE x.v

_enhance_prompt_with_recommendations(prompt, recommendations) ==
    IF ~Truthy(recommendations) THEN prompt
    ELSE LET r == recommendations.dict
             Has(k) == k \in DOMAIN r
             NonEmpty(k) == Has(k) /\ r[k].v # << >>
         IN  prompt
             \o (IF Has("theme_preference")
                 THEN " Utiliser un thème " \o r["theme_preference"].v \o "."
                 ELSE "")
             \o (IF NonEmpty("layout_suggestions")
                 THEN " Inclure les éléments suivants: "
                      \o Join(r["layout_suggestions"].v, ", ") \o "."
                 ELSE "")
             \o (IF NonEmpty("interaction_patterns")
                 THEN " Intégrer les interactions: "
                      \o Join(r["interaction_patterns"].v, ", ") \o "."
                 ELSE "")
             \o (IF Has("navigation_style")
                 THEN " Utiliser une navigation de type "
                      \o r["navigation_style"].v \o "."
                 ELSE "")

\* config.setdefault(key, {})[field] = value: the default is a dict, a value
\* found under key that is not a dict does not take the item assignment.
SetItemIn(config, key, field, value) ==
    LET c == SetDefault(config, key, Dict(EmptyDict))
    IN  IF c[key].t # "dict" THEN Raises("TypeError")
        ELSE Returns(Put(c, key, Dict(Put(c[key].v, field, value))))

_merge_with_recommendations(config, r) ==
    LET colors ==
            IF "color_psychology" \notin DOMAIN r THEN Returns(config)
            ELSE LET c == SetDefault(config, "colors", Dict(EmptyDict))
                 IN  IF c["colors"].t # "dict" THEN Raises("AttributeError")
                     ELSE Returns(Put(c, "colors",
                              Dict(Update(c["colors"].v, r["color_psychology"].v))))
        theme ==
            IF colors.raised \/ "theme_preference" \notin DOMAIN r THEN colors
            ELSE Returns(Put(colors.value, "theme", r["theme_preference"]))
        interactions ==
            IF theme.raised \/ "interaction_patterns" \notin DOMAIN r THEN theme
            ELSE LET existing == IF "interactions" \in DOMAIN theme.value
                                 THEN theme.value["interactions"]
                                 ELSE List(<< >>)
                 IN  IF ~IsList(existing) \/ existing.t = "list_of_objects"
                     THEN Raises("TypeError")
                     ELSE Returns(Put(theme.value, "interactions",
                              ListOfSet(Items(existing)
                                        \cup Items(r["interaction_patterns"]))))
        navigation ==
            IF interactions.raised \/ "navigation_style" \notin DOMAIN r
            THEN interactions
            ELSE SetItemIn(interactions.value, "navigation", "type",
                           r["navigation_style"])
    IN  IF navigation.raised \/ "layout_suggestions" \notin DOMAIN r THEN navigation
        ELSE SetItemIn(navigation.value, "layout", "features",
                       r["layout_suggestions"])

Metadata(stamp, fallback) ==
    [generated_at |-> Str(isoformat(stamp)),
     generator |-> Str("EnhancedUIGenerator"),
     version |-> Str("1.0"),
     fallback |-> Bool(fallback)]

RequiredKeys ==
    <<"theme", "layout", "colors", "typography", "interactions", "navigation">>

RECURSIVE SetDefaultsFrom(_, _)
SetDefaultsFrom(config, i) ==
    IF i > Len(RequiredKeys) THEN config
    ELSE SetDefaultsFrom(
             SetDefault(config, RequiredKeys[i],
                        IF RequiredKeys[i] = "interactions" THEN List(<< >>)
                        ELSE Dict(EmptyDict)),
             i + 1)

\* _validate_and_complete_config without its metadata block.
_validate_and_complete_config_no_metadata(self, config, stamp) ==
    Returns(SetDefaultsFrom(config, 1))

_validate_and_complete_config(self, config, stamp) ==
    LET required == SetDefaultsFrom(config, 1)
        colors == IF required["colors"].t # "dict"
                  THEN Put(required, "colors", Dict(BasePalette)) ELSE required
        typography == IF colors["typography"].t # "dict"
                      THEN Put(colors, "typography", Dict(BaseTypography))
                      ELSE colors
        metadata == SetDefault(typography, "metadata", Dict(EmptyDict))
    IN  IF metadata["metadata"].t # "dict" THEN Raises("AttributeError")
        ELSE Returns(Put(metadata, "metadata",
                 Dict(Update(metadata["metadata"].v,
                             Metadata(stamp, self.model = "None")))))

_get_fallback_config(recommendations, stamp) ==
    LET config ==
            [theme |-> Str("light"),
             layout |-> Dict([type |-> Str("standard"),
                              sections |-> List(<<"header", "content", "footer">>),
                              features |-> List(<< >>)]),
             colors |-> Dict(BasePalette),
             typography |-> Dict(BaseTypography),
             interactions |-> List(<<"basic_click", "hover_effects">>),
             navigation |-> Dict([type |-> Str("horizontal"),
                                  position |-> Str("top")]),
             metadata |-> Dict(Metadata(stamp, TRUE))]
    IN  IF Truthy(recommendations)
        THEN _merge_with_recommendations(config, recommendations.dict)
        ELSE Returns(config)

\* A generated text, by what the post-processing reads in it: whether the
\* cleaned text starts with "{" and what json.loads makes of it ("object": the
\* dict value; "invalid": a JSONDecodeError), and the words found in it.
Text(json, value, found) ==
    [kind |-> "text", json |-> json, value |-> value, found |-> found]

_post_process_generation(self, generated_text, recommendations, stamp) ==
    LET config == IF generated_text.json = "object" THEN generated_text.value
                  ELSE _text_to_config(generated_text.found)
        merged == IF Truthy(recommendations)
                  THEN _merge_with_recommendations(config, recommendations.dict)
                  ELSE Returns(config)
    IN  IF merged.raised THEN merged
        ELSE _validate_and_complete_config(self, merged.value, stamp)

\* generate_ui_config without its except clause.
GenerateUiConfig_unguarded(self, recommendations, generation, stamp) ==
    IF self.model = "None" \/ self.tokenizer = "None"
       \/ ~self.TORCH_AVAILABLE \/ ~self.HF_AVAILABLE
    THEN _get_fallback_config(recommendations, stamp)
    ELSE IF generation.kind = "raises" THEN Raises(generation.error)
    ELSE _post_process_generation(self, generation, recommendations, stamp)

\* The outcome of generate_ui_config, generation being what
\* _generate_with_t5 / _generate_with_gpt2 does when called: it raises, or
\* returns a text.
GenerateUiConfig(self, recommendations, generation, stamp) ==
    IF self.model = "None" \/ self.tokenizer = "None"
       \/ ~self.TORCH_AVAILABLE \/ ~self.HF_AVAILABLE
    THEN _get_fallback_config(recommendations, stamp)
    ELSE LET tried == IF generation.kind = "raises" THEN Raises(generation.error)
                      ELSE _post_process_generation(self, generation,
                                                    recommendations, stamp)
         IN  IF tried.raised THEN _get_fallback_config(recommendations, stamp)
             ELSE tried


\* EnhancedUIGenerator(...) after __init__ and _load_model, with the
\* module's TORCH_AVAILABLE and HF_AVAILABLE as it saw them.
EnhancedUIGenerator(torch, hf, loaded) ==
    [kind |-> "EnhancedUIGenerator", model_type |-> "t5", model_name |-> "t5-small",
     TORCH_AVAILABLE |-> torch, HF_AVAILABLE |-> hf,
     tokenizer |-> IF torch /\ hf /\ loaded THEN "T5Tokenizer" ELSE "None",
     model |-> IF torch /\ hf /\ loaded THEN "T5ForConditionalGeneration"
               ELSE "None",
     device |-> "cpu"]

Generators(h) == {a \in 1..Len(h) : h[a].kind = "EnhancedUIGenerator"}

\* JSON objects a model may write: none, some or all of the keys, with values
\* of the expected type or of another one.
GeneratedObjects ==
    << EmptyDict,
       [theme |-> Str("dark")],
       [theme |-> Str("light"),
        layout |-> Dict([type |-> Str("grid")]),
        colors |-> Dict([primary |-> Str("#000000")]),
        typography |-> Dict([font_family |-> Str("Georgia")]),
        interactions |-> List(<<"swipe">>),
        navigation |-> Dict([type |-> Str("tabs")]),
        metadata |-> Dict([author |-> Str("t5")])],
       [metadata |-> Str("v1")],
       [metadata |-> Null],
       [colors |-> Str("blue"), typography |-> List(<<"Arial">>)],
       [colors |-> Null],
       [interactions |-> Str("click")],
       [interactions |-> ListOfObjects],
       [navigation |-> Str("top")],
       [layout |-> List(<<"header">>)],
       [theme |-> Null, layout |-> Null, interactions |-> Null,
        navigation |-> Null] >>

FoundWords ==
    << {}, {"dark", "linear"}, {"sombre", "contraste", "drag", "aide", "hiérarchique"},
       {"tooltip", "étape", "hierarchical"} >>

\* What the model call does: it raises, writes prose, writes text that starts
\* with "{" and is not JSON, or writes a JSON object.
Generations ==
    << [kind |-> "raises", error |-> "RuntimeError"] >>
    \o [i \in 1..Len(FoundWords) |-> Text("none", EmptyDict, FoundWords[i])]
    \o [i \in 1..Len(FoundWords) |-> Text("invalid", EmptyDict, FoundWords[i])]
    \o [i \in 1..Len(GeneratedObjects) |-> Text("object", GeneratedObjects[i], {})]

NotCalled == 0

\* The learner_recommendations of a call: none, an empty dict, or the bundle
\* generate_ui_recommendations made for a profile (as /recommend passes it).
RecommendationInputs(h) ==
    << NoRecommendations, Recommendations(EmptyDict) >>
    \o [i \in 1..Cardinality(Profiles(h)) |->
           Recommendations(RecommendationsDict(
               UiRecommendations(h, CHOOSE p \in Profiles(h) :
                   Cardinality({q \in Profiles(h) : q < p}) = i - 1)))]

GeneratorPrompts == {"", "Objectif: cours"}

\* gen.generate_ui_config(prompt, learner_recommendations), generation being
\* the index of what the model call does (NotCalled when no model is loaded).
generate_ui_config(gen, prompt, recommendations, generation) ==
    LET self == heap[gen]
        recs == RecommendationInputs(heap)[recommendations]
        fallback == self.model = "None" \/ self.tokenizer = "None"
                    \/ ~self.TORCH_AVAILABLE \/ ~self.HF_AVAILABLE
    IN  /\ fallback <=> generation = NotCalled
        /\ last' = [op |-> "generate_ui_config", gen |-> gen,
                    recommendations |-> recs,
                    enhanced_prompt |->
                        _enhance_prompt_with_recommendations(prompt, recs),
                    generation |-> IF generation = NotCalled
                                   THEN [kind |-> "not_called"]
                                   ELSE Generations[generation],
                    ret |-> GenerateUiConfig(self, recs,
                               IF generation = NotCalled
                               THEN [kind |-> "not_called"]
                               ELSE Generations[generation], now)]
        /\ UNCHANGED <<heap, profile_cache, now>>

GeneratorArgs ==
    { DefaultArgs,
      Args(LearningStyle(R(3, 5), R(1, 4), R(1, 4), R(3, 5)),
           PersonalityProfile(R(7, 10), R(1, 2), R(1, 2), R(7, 10)),
           CognitiveProfile(R(1, 2), R(1, 2), R(1, 2), R(7, 10), R(3, 10)),
           BehavioralProfile(R(3, 10), R(1, 2), R(7, 10), R(1, 2), R(7, 10)),
           << >>, << >>, << >>, DefaultConfidenceLevel) }

InitGenerator ==
    /\ \E a \in GeneratorArgs, torch \in BOOLEAN, hf \in BOOLEAN, loaded \in BOOLEAN :
          heap = Construct(<< >>, "temp", a, 0, [op |-> "LearnerProfile"])
                 \o << EnhancedUIGenerator(torch, hf, loaded) >>
    /\ profile_cache = [id \in LearnerIds |-> None]
    /\ now = 0
    /\ last = [op |-> "init"]

NextGenerator ==
    \/ Tick
    \/ \E gen \in Generators(heap), prompt \in GeneratorPrompts,
          r \in 1..Len(RecommendationInputs(heap)),
          g \in {NotCalled} \cup (1..Len(Generations)) :
          generate_ui_config(gen, prompt, r, g)

SpecGenerator == InitGenerator /\ [][NextGenerator]_vars

ConfigKeys ==
    {"theme", "layout", "colors", "typography", "interactions", "navigation",
     "metadata"}

\* The mode of the last call of generate_ui_config.
LastMode ==
    IF last.generation.kind = "not_called" THEN "fallback"
    ELSE IF last.generation.kind = "raises" THEN "generation_raised"
    ELSE IF last.generation.json # "object" THEN "not_json"
    ELSE IF ConfigKeys \subseteq DOMAIN last.generation.value THEN "complete_json"
    ELSE "partial_json"

\* C23: generate_ui_config, called with no recommendations or with a bundle
\* of generate_ui_recommendations, returns without raising a configuration
\* that has at least the keys theme, layout, colors, typography, interactions,
\* navigation and metadata, whether no model is loaded, the generation raises,
\* the generated text is not JSON, or the generated JSON lacks keys or holds
\* values of a wrong type.
C23_ConfigAlwaysComplete ==
    last.op = "generate_ui_config" =>
        /\ ~last.ret.raised
        /\ ConfigKeys \subseteq DOMAIN last.ret.value
        /\ last.ret.value["metadata"].t = "dict"
        /\ "fallback" \in DOMAIN last.ret.value["metadata"].v

\* A model is loaded, it wrote a JSON object that lacks keys and whose
\* metadata is not an object, and recommendations were passed.
C23_Witness ==
    /\ last.op = "generate_ui_config"
    /\ LastMode = "partial_json"
    /\ "metadata" \in DOMAIN last.generation.value
    /\ last.generation.value["metadata"].t # "dict"
    /\ Truthy(last.recommendations)
    /\ ~last.ret.raised
    /\ ConfigKeys \subseteq DOMAIN last.ret.value


(***************************************************************************)
(* Two callers updating one learner.  Each runs                            *)
(*     cached = get(id); result = merge_profiles(cached, incoming, w);     *)
(*     set(result)                                                         *)
(* on the one ProfileGenerator.  A caller's local variables are a frame    *)
(* cell of the heap.  The store takes no lock (get, set and merge_profiles *)
(* acquire nothing), so the steps of the two callers interleave freely; a  *)
(* host that serializes access per identifier lets a caller start only     *)
(* when no other caller is between its get and its set.                    *)
(***************************************************************************)
Caller(learner_id, incoming, weight) ==
    [kind |-> "Caller", learner_id |-> learner_id, incoming |-> incoming,
     weight |-> weight, pc |-> "get", cached |-> None, result |-> None]

Host(serialized) == [kind |-> "Host", serialized |-> serialized]

Callers(h) == {a \in 1..Len(h) : h[a].kind = "Caller"}

Serialized(h) == \E a \in 1..Len(h) : h[a].kind = "Host" /\ h[a].serialized

\* cached = generator.get(learner_id)
caller_get(c) ==
    /\ heap[c].pc = "get"
    /\ Serialized(heap) =>
           \A o \in Callers(heap) \ {c} : heap[o].pc \in {"get", "done"}
    /\ profile_cache[heap[c].learner_id] # None
    /\ heap' = [heap EXCEPT ![c].cached = profile_cache[heap[c].learner_id],
                            ![c].pc = "merge_profiles"]
    /\ last' = [op |-> "get", learner_id |-> heap[c].learner_id,
                ret |-> profile_cache[heap[c].learner_id], caller |-> c]
    /\ UNCHANGED <<profile_cache, now>>

\* result = generator.merge_profiles(cached, incoming, weight)
caller_merge_profiles(c) ==
    /\ heap[c].pc = "merge_profiles"
    /\ heap' = [MergeHeap(heap[c].cached, heap[c].incoming, heap[c].weight)
                   EXCEPT ![c].result = Len(heap) + 8, ![c].pc = "set"]
    /\ last' = [op |-> "merge_profiles", existing |-> heap[c].cached,
                new |-> heap[c].incoming, weight |-> heap[c].weight,
                ret |-> Len(heap) + 8, caller |-> c]
    /\ UNCHANGED <<profile_cache, now>>

\* generator.set(result)
caller_set(c) ==
    LET profile == heap[c].result
    IN  /\ heap[c].pc = "set"
        /\ heap' = [heap EXCEPT ![profile].last_updated = SetStamp(profile),
                                ![c].pc = "done"]
        /\ profile_cache' = [profile_cache EXCEPT ![SetKey(profile)] = profile]
        /\ last' = [op |-> "set", profile |-> profile,
                    old_stamp |-> heap[profile].last_updated, caller |-> c]
        /\ UNCHANGED now

\* The incoming evidence of the two callers: distinct scores, one strength each.
IncomingArgs ==
    << Args(LearningStyle(R(1, 1), R(0, 1), R(1, 4), R(1, 4)),
            DefaultPersonalityProfile, DefaultCognitiveProfile,
            DefaultBehavioralProfile, << >>, <<"A">>, << >>, R(4, 5)),
       Args(LearningStyle(R(0, 1), R(1, 1), R(1, 4), R(1, 4)),
            PersonalityProfile(R(1, 1), R(1, 2), R(1, 2), R(0, 1)),
            DefaultCognitiveProfile, DefaultBehavioralProfile,
            << >>, <<"B">>, << >>, R(1, 5)) >>

CallerWeights == {R(3, 10), R(1, 2)}

\* "a" is cached; each caller holds its incoming profile and has not started.
InitCallers ==
    /\ \E w1 \in CallerWeights, w2 \in CallerWeights, serialized \in BOOLEAN :
          LET cached == Construct(<< >>, "a", DefaultArgs, 0,
                                  [op |-> "LearnerProfile"])
              first == Construct(cached, "a", IncomingArgs[1], 0,
                                 [op |-> "LearnerProfile"])
              second == Construct(first, "a", IncomingArgs[2], 0,
                                  [op |-> "LearnerProfile"])
          IN  heap = second \o << Caller("a", Len(first), w1),
                                  Caller("a", Len(second), w2),
                                  Host(serialized) >>
    /\ profile_cache = [id \in LearnerIds |-> IF id = "a" THEN 8 ELSE None]
    /\ now = 0
    /\ last = [op |-> "init"]

NextCallers ==
    \/ Tick
    \/ \E c \in Callers(heap) : caller_get(c)
    \/ \E c \in Callers(heap) : caller_merge_profiles(c)
    \/ \E c \in Callers(heap) : caller_set(c)

SpecCallers == InitCallers /\ [][NextCallers]_vars

\* The constructed profiles whose values went into p, through merges.
RECURSIVE Evidence(_, _)
Evidence(h, p) ==
    IF h[p].made_by.op = "merge_profiles"
    THEN Evidence(h, h[p].made_by.existing) \cup Evidence(h, h[p].made_by.new)
    ELSE {p}

\* The cached profile carries what profile q brought in: q is among its
\* evidence and q's strengths are among its strengths.
Incorporates(h, p, q) ==
    /\ q \in Evidence(h, p)
    /\ Range(h[h[q].strengths].items) \subseteq Range(h[h[p].strengths].items)

AllDone == \A c \in Callers(heap) : heap[c].pc = "done"

\* C24: two callers each ran get, merge_profiles, set for the same
\* identifier.  The cached profile is then the result of one of them and
\* carries that caller's incoming profile; when the host serialized the two
\* sequences it carries the incoming profiles of both.
C24_SerializedKeepsBothUpdates ==
    (Callers(heap) # {} /\ AllDone) =>
        /\ \E c \in Callers(heap) :
              /\ profile_cache[heap[c].learner_id] = heap[c].result
              /\ Incorporates(heap, heap[c].result, heap[c].incoming)
        /\ Serialized(heap) =>
              \A c \in Callers(heap) :
                  Incorporates(heap, profile_cache[heap[c].learner_id],
                               heap[c].incoming)

\* Lost update: without serialization both callers are done and the cached
\* profile carries nothing of one caller's incoming profile.
C24_Witness ==
    /\ Callers(heap) # {} /\ AllDone /\ ~Serialized(heap)
    /\ \E c \in Callers(heap) :
          LET p == profile_cache[heap[c].learner_id]
          IN  /\ heap[c].incoming \notin Evidence(heap, p)
              /\ Range(heap[heap[heap[c].incoming].strengths].items)
                     \cap Range(heap[heap[p].strengths].items) = {}


(***************************************************************************)
(* The lifetime of cache entries: every operation of ProfileGenerator on   *)
(* profiles callers hold.                                                  *)
(***************************************************************************)
LifetimeInputs == << RankingInputs[1], RankingInputs[2] >>

LifetimeSizes == {1, 5}

InitLifetime ==
    /\ heap = ConstructAll(<< >>, LifetimeInputs, 1)
    /\ profile_cache = [id \in LearnerIds |-> None]
    /\ now = 1
    /\ last = [op |-> "init"]

NextLifetime ==
    \/ \E id \in LearnerIds : get(id)
    \/ \E p \in Profiles(heap) : set(p)
    \/ \E existing \in Profiles(heap), new \in Profiles(heap), weight \in StoreWeights :
          merge_profiles(existing, new, weight)
    \/ \E id \in LearnerIds, fmt \in Formats : export_profile(id, fmt)
    \/ \E id \in LearnerIds, n \in LifetimeSizes : get_similar_learners(id, n)

SpecLifetime == InitLifetime /\ [][NextLifetime]_vars

\* C25: no operation removes a cache entry.  Over get, set, merge_profiles,
\* export_profile and get_similar_learners an identifier that is cached stays
\* cached (get keeps returning a profile for it), and a step that adds an
\* identifier is a set, which adds the identifier of the profile it was given.
C25_NoDeletion ==
    [][/\ \A id \in DOMAIN profile_cache :
              profile_cache[id] # None => profile_cache'[id] # None
       /\ CacheKeys' # CacheKeys =>
              /\ last'.op = "set"
              /\ CacheKeys' = CacheKeys \cup {heap[last'.profile].learner_id}]_vars

\* Both identifiers are cached, a merge has since been made, and get has
\* just returned a profile.
C25_Witness ==
    /\ last.op = "get"
    /\ last.ret # None
    /\ CacheKeys = LearnerIds
    /\ MergedProfiles # {}


get_dominant_learning_style(learning_style) ==
    /\ last' = [op |-> "_get_dominant_learning_style", ls |-> learning_style,
                dominant_style |-> DominantStyle(learning_style),
                ret |-> _get_dominant_learning_style(learning_style)]
    /\ UNCHANGED <<heap, profile_cache, now>>

NextDominant ==
    \/ \E ls \in InferenceStyles : infer_vark_from_learning_style(ls)
    \/ \E ls \in InferenceStyles : get_dominant_learning_style(ls)

SpecDominant == Init /\ [][NextDominant]_vars

\* The axis a VARK label stands for.
VarkAxis == [V |-> "visual", A |-> "auditory", R |-> "reading", K |-> "kinesthetic"]

StyleInUnit(ls) ==
    /\ InUnit(ls.visual) /\ InUnit(ls.auditory)
    /\ InUnit(ls.reading) /\ InUnit(ls.kinesthetic)

\* The texts that may follow the dominant style: nothing, or the tendencies,
\* one to three of the other styles.
TendencyTexts(dominant_style) ==
    LET others == (DOMAIN vark_descriptions) \ {dominant_style}
        lists == {s \in UNION {[1..n -> others] : n \in 1..3} : NoRepeats(s)}
    IN  {""} \cup
        {" avec des tendances "
            \o Join([i \in 1..Len(s) |-> vark_descriptions[s[i]]], " et ") :
         s \in lists}

\* text names axis as the dominant style.
NamesDominant(text, axis) ==
    \E tail \in TendencyTexts(axis) :
        text = "apprenant principalement " \o vark_descriptions[axis] \o tail

\* C27: for a learning style with its four scores in [0,1], ties included,
\* the dominant style named by _get_dominant_learning_style is the axis of the
\* VARK label returned by _infer_vark_from_learning_style.
C27_DominantIsVarkLabel ==
    /\ (last.op = "_get_dominant_learning_style" /\ StyleInUnit(last.ls)) =>
           LET axis == VarkAxis[_infer_vark_from_learning_style(last.ls)[1]]
           IN  /\ last.dominant_style = axis
               /\ NamesDominant(last.ret, axis)
    /\ (last.op = "_infer_vark_from_learning_style" /\ StyleInUnit(last.ls)) =>
           /\ VarkAxis[last.ret[1]] = DominantStyle(last.ls)
           /\ NamesDominant(_get_dominant_learning_style(last.ls),
                            VarkAxis[last.ret[1]])

\* A tie in range: auditory and reading both 1, visual lower; the text names
\* auditory, the first of the two.
C27_Witness ==
    /\ last.op = "_get_dominant_learning_style"
    /\ last.ls = LearningStyle(R(1, 4), R(1, 1), R(1, 1), R(0, 1))
    /\ last.dominant_style = "auditory"
    /\ last.ret = "apprenant principalement auditif avec des tendances "
                  \o "lecture/écriture et visuel"


MinimalFocusTags == {"minimal_design", "focused_content", "progress_indicators"}

StructureTags == {"structured_layout", "clear_sections", "navigation_breadcrumbs"}

\* C28: in every bundle of generate_ui_recommendations navigation_style is
\* "linear" exactly when layout_suggestions holds the minimal/focus tags, and
\* navigation_style "hierarchical" comes with the structure tags in
\* layout_suggestions.
C28_NavigationMatchesLayout ==
    last.op = "generate_ui_recommendations" =>
        LET layout == Range(last.ret.layout_suggestions)
            navigation == last.ret.navigation_style
        IN  /\ navigation = "linear" <=> MinimalFocusTags \subseteq layout
            /\ navigation = "linear" <=> MinimalFocusTags \cap layout # {}
            /\ navigation = "hierarchical" => StructureTags \subseteq layout

\* A short attention span with a high judging score: the navigation is
\* linear, the layout holds the minimal/focus tags and the structure tags.
C28_Witness ==
    /\ last.op = "generate_ui_recommendations"
    /\ RLt(LastCognitive.attention_span, R(2, 5))
    /\ RLt(R(3, 5), LastPersonality.judging)
    /\ last.ret.navigation_style = "linear"
    /\ MinimalFocusTags \cup StructureTags \subseteq Range(last.ret.layout_suggestions)


\* C29: export_profile of a cached identifier returns a non-empty JSON text
\* (the dump of the cached profile) when fmt is "json" in any letter case and
\* the empty string for any other fmt, so the empty string is also the answer
\* for a known identifier; either way the cache and the profiles are left as
\* they were.
C29_ExportOfCachedId ==
    [][(last'.op = "export_profile" /\ profile_cache[last'.learner_id] # None) =>
          /\ last'.fmt \in {"json", "JSON", "Json"} =>
                /\ last'.ret = JsonDumps(heap, profile_cache[last'.learner_id])
                /\ Len(last'.ret) > 2
          /\ last'.fmt \notin {"json", "JSON", "Json"} => last'.ret = ""
          /\ profile_cache' = profile_cache
          /\ heap' = heap]_vars

\* A cached identifier exported as "xml": the empty string, as for an unknown
\* identifier.
C29_Witness ==
    /\ last.op = "export_profile"
    /\ InCache(last.learner_id)
    /\ last.fmt = "xml"
    /\ last.ret = ""
    /\ last.ret = NotFoundExport


(***************************************************************************)
(* build_prompt_from_profiles (src/src/models/prompt_transformer.py): the  *)
(* adapter of /recommend.  profiles and its entries are JSON values; a     *)
(* features mapping holds numbers under the score keys and lists of        *)
(* strings under "strengths" and "difficulties"; ui is a dict of strings,  *)
(* kept as its items in insertion order.                                   *)
(***************************************************************************)
\* s.upper() on the labels below.
Upper(s) ==
    CASE s = "v" -> "V"
      [] s = "k" -> "K"
      [] s = "enfp" -> "ENFP"
      [] OTHER -> s

\* The characters of the upper-case codes below.
CodeLetters ==
    [INTJ |-> <<"I", "N", "T", "J">>, ENFP |-> <<"E", "N", "F", "P">>,
     ESTJ |-> <<"E", "S", "T", "J">>, EN |-> <<"E", "N">>]

\* code[i-1:i]
CodeSlice(code, i) ==
    IF i <= Len(CodeLetters[code]) THEN CodeLetters[code][i] ELSE ""

\* x or default, for x a label (a str) or None
OrDefault(x, default) == IF x.t = "null" \/ x.v = "" THEN default ELSE x.v

\* _vark_to_learning_style(vark_label), base left out
_vark_to_learning_style(vark_label) ==
    LET label == Upper(vark_label)
        boost == R(13, 20)
        rest == RMul(RSub(OneR, boost), R(1, 3))
    IN  IF label = "V" THEN LearningStyle(boost, rest, rest, rest)
        ELSE IF label = "A" THEN LearningStyle(rest, boost, rest, rest)
        ELSE IF label = "R" THEN LearningStyle(rest, rest, boost, rest)
        ELSE IF label = "K" THEN LearningStyle(rest, rest, rest, boost)
        ELSE DefaultLearningStyle

\* _mbti_to_personality(mbti), base left out
_mbti_to_personality(mbti) ==
    LET code == Upper(mbti)
        Axis(i, letter) == IF CodeSlice(code, i) = letter THEN R(3, 4) ELSE R(1, 4)
    IN  PersonalityProfile(Axis(1, "E"), Axis(2, "N"), Axis(3, "T"), Axis(4, "J"))

\* features.get(key, default)
FeatureOr(features, key, default) ==
    IF key \in DOMAIN features THEN features[key] ELSE default

\* vark.get("label") if isinstance(vark, dict) else vark
LabelOf(x) ==
    IF x.t = "dict" THEN (IF "label" \in DOMAIN x.v THEN x.v["label"] ELSE Null)
    ELSE x

\* str(ui)
PyStr(ui) ==
    "{" \o Join([i \in 1..Len(ui) |->
                    "'" \o ui[i][1] \o "': '" \o ui[i][2] \o "'"], ", ") \o "}"

\* A cognitive profile that takes attention_span from the features.
BuiltCognitive_hydrated(features) ==
    [DefaultCognitiveProfile EXCEPT
        !.attention_span = FeatureOr(features, "attention_span", R(1, 2))]

\* cog = CognitiveProfile()
BuiltCognitive(features) == DefaultCognitiveProfile

\* beh = BehavioralProfile()
BuiltBehavioral(features) == DefaultBehavioralProfile

\* The LearnerProfile lp that build_prompt_from_profiles constructs.
BuiltProfile(profiles, features) ==
    LET vark_label == LabelOf(FeatureOr(profiles, "VARK", Null))
        mbti_label == LabelOf(FeatureOr(profiles, "MBTI", Null))
        ls == _vark_to_learning_style(OrDefault(vark_label, "R"))
        pers == _mbti_to_personality(OrDefault(mbti_label, "INTJ"))
    IN  Args(LearningStyle(FeatureOr(features, "ls_visual", ls.visual),
                           FeatureOr(features, "ls_auditory", ls.auditory),
                           FeatureOr(features, "ls_reading", ls.reading),
                           FeatureOr(features, "ls_kinesthetic", ls.kinesthetic)),
             PersonalityProfile(
                 FeatureOr(features, "pers_extraversion", pers.extraversion),
                 FeatureOr(features, "pers_intuition", pers.intuition),
                 FeatureOr(features, "pers_thinking", pers.thinking),
                 FeatureOr(features, "pers_judging", pers.judging)),
             BuiltCognitive(features), BuiltBehavioral(features),
             FeatureOr(features, "difficulties", << >>),
             FeatureOr(features, "strengths", << >>),
             << >>,
             FeatureOr(features, "confidence", R(3, 5)))

\* The value build_prompt_from_profiles returns.
BuildPrompt(goal, lang, level, profiles, features, ui) ==
    LET h == Construct(<< >>, "temp", BuiltProfile(profiles, features), 0,
                       [op |-> "LearnerProfile"])
        lp == Newest(h)
        header == "[BUT] " \o goal \o " | [LANG] " \o lang \o " | [NIVEAU] " \o level
        ui_constraints == "[UI CONSTRAINTS] " \o PyStr(ui)
    IN  [text |-> header \o "\n" \o PromptText(h, lp) \o "\n" \o ui_constraints,
         recommendations |-> UiRecommendations(h, lp),
         context |-> [goal |-> goal, lang |-> lang, level |-> level],
         profiles |-> [VARK |-> LabelOf(FeatureOr(profiles, "VARK", Null)),
                       MBTI |-> LabelOf(FeatureOr(profiles, "MBTI", Null))],
         ui |-> ui]

\* The profiles mappings of the calls: labels as strings or as dicts, in
\* either letter case, unknown, empty or missing.
ProfileInputs ==
    << EmptyDict,
       [VARK |-> Str("V"), MBTI |-> Str("ENFP")],
       [VARK |-> Dict([label |-> Str("k")]), MBTI |-> Dict([label |-> Str("enfp")])],
       [VARK |-> Str("A"), MBTI |-> Str("ESTJ")],
       [VARK |-> Str("X"), MBTI |-> Str("EN")],
       [VARK |-> Dict(EmptyDict), MBTI |-> Str("")],
       [VARK |-> Null, MBTI |-> Str("INTJ")] >>

\* The features mappings of the calls: none; learning-style and personality
\* scores under their prefixed keys, in and out of [0,1]; confidence;
\* strengths and difficulties; keys that name cognitive and behavioral
\* fields; unprefixed score keys.
BuildFeatureInputs ==
    << [k \in {} |-> Zero],
       [ls_visual |-> R(9, 10)],
       [ls_kinesthetic |-> R(4, 5), pers_judging |-> R(1, 10)],
       [pers_extraversion |-> R(9, 10), pers_judging |-> R(9, 10)],
       [ls_visual |-> R(3, 2), pers_extraversion |-> R(-1, 2)],
       [confidence |-> R(1, 5)],
       [confidence |-> R(9, 10), strengths |-> <<"Logique">>],
       [strengths |-> <<"Logique", "calcul">>, difficulties |-> <<"Lecture">>],
       [difficulties |-> <<"Lecture">>, confidence |-> R(3, 10)],
       [attention_span |-> R(1, 10), cog_attention_span |-> R(1, 10),
        engagement_level |-> R(1, 10), creative_thinking |-> R(9, 10),
        help_seeking |-> R(9, 10), self_regulation |-> R(1, 10)],
       [attention_span |-> R(1, 10), ls_visual |-> R(9, 10),
        pers_judging |-> R(9, 10)],
       [visual |-> R(9, 10), extraversion |-> R(1, 10)] >>

UiInputs == << << >>, << <<"theme", "dark">> >> >>

BuildGoals == {"cours", "quiz"}

build_prompt_from_profiles(goal, lang, level, profiles, features, ui) ==
    /\ last' = [op |-> "build_prompt_from_profiles", goal |-> goal, lang |-> lang,
                level |-> level, profiles |-> profiles, features |-> features,
                ui |-> ui, lp |-> BuiltProfile(profiles, features),
                ret |-> BuildPrompt(goal, lang, level, profiles, features, ui)]
    /\ UNCHANGED <<heap, profile_cache, now>>

NextBuild ==
    \E goal \in BuildGoals, p \in 1..Len(ProfileInputs),
       f \in 1..Len(BuildFeatureInputs), u \in 1..Len(UiInputs) :
        build_prompt_from_profiles(goal, "fr", "debutant", ProfileInputs[p],
                                   BuildFeatureInputs[f], UiInputs[u])

SpecBuild == Init /\ [][NextBuild]_vars


SocialTags == {"social_features", "collaboration_tools", "sharing_options"}

ScoreKeys ==
    {"ls_visual", "ls_auditory", "ls_reading", "ls_kinesthetic",
     "pers_extraversion", "pers_intuition", "pers_thinking", "pers_judging"}

Restrict(f, keys) == [k \in DOMAIN f \cap keys |-> f[k]]

\* What the last call would have returned with only these keys in features.
LastBuildWith(keys) ==
    BuildPrompt(last.goal, last.lang, last.level, last.profiles,
                Restrict(last.features, keys), last.ui)

\* The part of C30 that holds as claimed: neutral cognitive and behavioral
\* scores and what follows for the recommendations.
NeutralRecommendations ==
    /\ last.lp.cognitive = DefaultCognitiveProfile
    /\ last.lp.behavioral = DefaultBehavioralProfile
    /\ last.ret.recommendations.navigation_style # "linear"
    /\ Range(last.ret.recommendations.layout_suggestions) \cap MinimalFocusTags = {}
    /\ Range(last.ret.recommendations.interaction_patterns) \subseteq SocialTags
    /\ last.ret.recommendations.color_psychology.primary = "#3498db"
    /\ last.ret.recommendations.color_psychology.secondary = "#2ecc71"

(***************************************************************************)
(* C30 as claimed.  build_prompt_from_profiles builds its profile with     *)
(* default cognitive and behavioral scores whatever the features hold, so  *)
(* its recommendations have a navigation_style other than "linear", no     *)
(* minimal/focus tag, at most the three social tags, and base primary and  *)
(* secondary colours; and of the features only the ls_* and pers_* scores  *)
(* and confidence influence the output.                                    *)
(***************************************************************************)
C30_Original ==
    last.op = "build_prompt_from_profiles" =>
        /\ NeutralRecommendations
        /\ last.ret = LastBuildWith(ScoreKeys \cup {"confidence"})

(***************************************************************************)
(* C30 amended.  The cognitive and behavioral scores are the defaults and  *)
(* the recommendations are as claimed; the recommendations depend on the   *)
(* ls_* and pers_* scores alone, and the output as a whole on these, on    *)
(* confidence and also on the strengths and difficulties features, which   *)
(* go into the text.                                                       *)
(***************************************************************************)
C30_NeutralCognitiveAndBehavioral ==
    last.op = "build_prompt_from_profiles" =>
        /\ NeutralRecommendations
        /\ last.ret.recommendations = LastBuildWith(ScoreKeys).recommendations
        /\ last.ret =
               LastBuildWith(ScoreKeys \cup {"confidence", "strengths", "difficulties"})

\* Features that name a short attention span and a low engagement: the
\* profile built has the default scores and the navigation is not linear.
C30_Witness ==
    /\ last.op = "build_prompt_from_profiles"
    /\ "attention_span" \in DOMAIN last.features
    /\ RLt(last.features["attention_span"], R(2, 5))
    /\ "ls_visual" \in DOMAIN last.features
    /\ last.lp.cognitive.attention_span = R(1, 2)
    /\ last.ret.recommendations.navigation_style = "hierarchical"
    /\ last.ret.recommendations.theme_preference = "high_contrast"

====
